---- MODULE Spec2Model ----
(***************************************************************************)
(* A model of eureka.S5_lightcurve_fitting.models.PyMC3Models.StarryModel: *)
(* the differentiable build (__init__), the concrete build (the fit_dict   *)
(* setter), the parameters setter and the systematics coefficient decoding *)
(* of syseval.                                                             *)
(*                                                                         *)
(* A parameter name is a sequence of one-character strings, so that the    *)
(* string operations of the decoder (lower, startswith, slicing, split,    *)
(* isdigit, int) are computed character by character.                      *)
(*                                                                         *)
(* The module also models eureka.lib.readECF.MetaClass: the constructor,   *)
(* read, __setattr__, the raw directory properties and copy_ecf.           *)
(***************************************************************************)
EXTENDS Integers, Sequences, FiniteSets, TLC

VARIABLES
    paramtitles,   \* self.paramtitles: the ordered parameter names
    parameters,    \* self.parameters: name -> [ptype, prior, priorpar1, priorpar2, value]
    limb_dark,     \* self.parameters.limb_dark.value
    nchan,         \* self.nchan
    pc,            \* position of __init__: new, params, star, limb, planet, system, built, failed
    err,           \* the exception __init__ raised, if any
    attrs,         \* the attributes __init__ set on the model, name -> binding
    star,          \* self.star
    planet,        \* self.planet
    sys,           \* self.sys
    fit_dict,      \* self._fit_dict: an insertion-ordered dict, its items <<key, value>>
    fit,           \* self.fit: the concrete model built by the fit_dict setter
    fiterr,        \* the exception the last fit_dict assignment raised, if any
    sysout,        \* the outcome of the last syseval call
    time,          \* self.time, once setup has stored it
    flux,          \* self.flux, the observed fluxes setup has stored
    lc_unc,        \* self.lc_unc, the uncertainties setup has stored
    obs,           \* the likelihood setup has declared: pm.Normal("obs", ...)
    evalout,       \* the outcome of the last eval call
    meta,          \* the MetaClass object: its instance attributes, params among them
    metaerr,       \* the exception the last MetaClass operation raised, if any
    disk           \* the files on disk, path -> lines

\* What setup and eval assign.
setupvars == <<time, flux, lc_unc, obs, evalout>>

\* What the operations of MetaClass assign.
metavars == <<meta, metaerr, disk>>

vars == <<paramtitles, parameters, limb_dark, nchan, pc, err, attrs, star, planet,
          sys, fit_dict, fit, fiterr, sysout, time, flux, lc_unc, obs, evalout,
          meta, metaerr, disk>>

(***************************************************************************)
(* Bounds of the model.                                                    *)
(***************************************************************************)
MaxChan == 2
MaxFit == 2

(***************************************************************************)
(* Parameter names.                                                        *)
(***************************************************************************)
nMs == <<"M", "s">>
nMp == <<"M", "p">>
nRs == <<"R", "s">>
nrp == <<"r", "p">>
na == <<"a">>
ninc == <<"i", "n", "c">>
necc == <<"e", "c", "c">>
nw == <<"w">>
nper == <<"p", "e", "r">>
nu1 == <<"u", "1">>
nu2 == <<"u", "2">>
nfp == <<"f", "p">>
nAmpCos1 == <<"A", "m", "p", "C", "o", "s", "1">>
nAmpSin1 == <<"A", "m", "p", "S", "i", "n", "1">>
nAmpCos2 == <<"A", "m", "p", "C", "o", "s", "2">>
nAmpSin2 == <<"A", "m", "p", "S", "i", "n", "2">>
nscatter_mult == <<"s", "c", "a", "t", "t", "e", "r", "_", "m", "u", "l", "t">>
nscatter_ppm == <<"s", "c", "a", "t", "t", "e", "r", "_", "p", "p", "m">>
nc0 == <<"c", "0">>
nc1 == <<"c", "1">>

Range(s) == {s[i] : i \in 1..Len(s)}

\* required = np.array(['Ms', 'Mp', 'Rs'])
required == <<nMs, nMp, nRs>>

(***************************************************************************)
(* Values.  Every value is a record with a kind, so that two values of     *)
(* different kinds can be compared.                                        *)
(***************************************************************************)
Float(v) == [kind |-> "float", value |-> v]

\* tt.constant(param.value)
Constant(v) == [kind |-> "constant", value |-> v]

NoObj == [kind |-> "none"]
NoErr == [type |-> "none", what |-> "", names |-> <<>>]
Error(t, w, ns) == [type |-> t, what |-> w, names |-> ns]


(***************************************************************************)
(* __init__, lines 45-72: the variable created for one parameter.          *)
(***************************************************************************)
PTypes == {"independent", "fixed", "free", "shared"}

\* lines 52-61: the shape computed for a free or shared parameter
\* (a tuple of dimensions; <<>> is a scalar).
ShapeOf(ptype, n) ==
    IF ptype = "free" THEN (IF n = 1 THEN <<1>> ELSE <<1, n>>) ELSE <<>>

\* The shape the distribution is created with: the shape argument is
\* commented out on lines 63-72, so every distribution is a scalar.
DistShape(ptype, n) == <<>>

\* The number of values a variable of a given shape holds.
RECURSIVE NValues(_)
NValues(shape) ==
    IF shape = <<>> THEN 1 ELSE Head(shape) * NValues(Tail(shape))

\* pm.Uniform(parname, lower=priorpar1, upper=priorpar2)
Uniform(parname, lo, hi, shape) ==
    [kind |-> "rv", name |-> parname, family |-> "Uniform", par1 |-> lo, par2 |-> hi,
     haslower |-> FALSE, lower |-> 0, hasupper |-> FALSE, upper |-> 0,
     exp |-> FALSE, shape |-> shape]

\* pm.Normal(parname, mu=priorpar1, sigma=priorpar2)
Normal(parname, mu, sigma, shape) ==
    [kind |-> "rv", name |-> parname, family |-> "Normal", par1 |-> mu, par2 |-> sigma,
     haslower |-> FALSE, lower |-> 0, hasupper |-> FALSE, upper |-> 0,
     exp |-> FALSE, shape |-> shape]

\* line 19: BoundedNormal_0 = pm.Bound(pm.Normal, lower=0.0)
BoundedNormal_0(parname, mu, sigma, shape) ==
    [Normal(parname, mu, sigma, shape) EXCEPT !.haslower = TRUE, !.lower = 0]

\* line 20: BoundedNormal_90 = pm.Bound(pm.Normal, upper=90.)
BoundedNormal_90(parname, mu, sigma, shape) ==
    [Normal(parname, mu, sigma, shape) EXCEPT !.hasupper = TRUE, !.upper = 90]

\* tt.exp(x)
Exp(x) == [x EXCEPT !.exp = TRUE]

\* PositiveNames without c0.
PositiveNamesNoC0 == {nrp, nper, necc, nscatter_mult, nscatter_ppm}

\* line 65: the names whose normal prior is bounded below at 0
PositiveNames == {nrp, nper, necc, nscatter_mult, nscatter_ppm, nc0}

\* lines 62-72: the attributes after the prior of a free or shared parameter
\* is applied; a prior other than U, N, LU matches no branch and sets nothing.
ApplyPrior(at, parname, param, n) ==
    LET shape == DistShape(param.ptype, n)
        p1 == param.priorpar1
        p2 == param.priorpar2
    IN  IF param.prior = "U"
        THEN (parname :> Uniform(parname, p1, p2, shape)) @@ at
        ELSE IF param.prior = "N"
        THEN IF parname \in PositiveNames
             THEN (parname :> BoundedNormal_0(parname, p1, p2, shape)) @@ at
             ELSE IF parname \in {ninc}
             THEN (parname :> BoundedNormal_90(parname, p1, p2, shape)) @@ at
             ELSE (parname :> Normal(parname, p1, p2, shape)) @@ at
        ELSE IF param.prior = "LU"
        THEN (parname :> Exp(Uniform(parname, p1, p2, shape))) @@ at
        ELSE at

\* lines 46-72: one iteration of the loop over paramtitles.
BindParam(at, parname, param, n) ==
    IF param.ptype = "independent"
    THEN [attrs |-> at, err |-> NoErr]
    ELSE IF param.ptype = "fixed"
    THEN [attrs |-> (parname :> Constant(param.value)) @@ at, err |-> NoErr]
    ELSE IF param.ptype \in {"free", "shared"}
    THEN [attrs |-> ApplyPrior(at, parname, param, n), err |-> NoErr]
    ELSE [attrs |-> at, err |-> Error("ValueError", "ptype", <<parname>>)]

\* lines 45-72: the loop, stopping at the first iteration that raises.
RECURSIVE ParamLoop(_, _, _, _, _)
ParamLoop(i, at, titles, params, n) ==
    IF i > Len(titles)
    THEN [attrs |-> at, err |-> NoErr]
    ELSE LET r == BindParam(at, titles[i], params[titles[i]], n)
         IN  IF r.err # NoErr THEN r ELSE ParamLoop(i + 1, r.attrs, titles, params, n)

(***************************************************************************)
(* The star, the limb darkening, the planet and the system.  ns is the     *)
(* namespace the values are read from: the model's attributes in __init__, *)
(* the fit object's attributes in the fit_dict setter.  Each operator      *)
(* returns the object and the exception raised, if any.                    *)
(***************************************************************************)
Has(ns, name) == name \in DOMAIN ns

\* The first name of a sequence that is no attribute of ns: reading it raises
\* AttributeError.
RECURSIVE FirstMissing(_, _)
FirstMissing(ns, names) ==
    IF names = <<>> THEN <<>>
    ELSE IF ~Has(ns, Head(names)) THEN <<Head(names)>>
    ELSE FirstMissing(ns, Tail(names))

AttributeError(names) == Error("AttributeError", "attribute", names)

\* lines 75-80 and 317-322
Udeg(ns) == IF Has(ns, nu2) THEN 2 ELSE IF Has(ns, nu1) THEN 1 ELSE 0

\* lines 81 and 323: starry.Primary(starry.Map(ydeg=0, udeg=udeg, amp=1.0),
\*                                  m=Ms, r=Rs, prot=1.0)
MakeStar(ns) ==
    LET miss == FirstMissing(ns, <<nMs, nRs>>)
    IN  IF miss # <<>>
        THEN [obj |-> NoObj, err |-> AttributeError(miss)]
        ELSE [obj |-> [kind |-> "Primary", ydeg |-> 0, udeg |-> Udeg(ns), amp |-> Float(1),
                       m |-> ns[nMs], r |-> ns[nRs], prot |-> Float(1),
                       u |-> <<Float(0), Float(0)>>],
              err |-> NoErr]

\* Expressions of values: tt.sqrt(x), x*y, x - y
Sqrt(x) == [kind |-> "sqrt", x |-> x]
Product(x, y) == [kind |-> "product", x |-> x, y |-> y]
Difference(x, y) == [kind |-> "difference", x |-> x, y |-> y]

\* lines 86 and 327: 2*tt.sqrt(u1)*u2
U1Quadratic(u1, u2) == Product(Product(Float(2), Sqrt(u1)), u2)

\* U2Quadratic without the factor 2: tt.sqrt(u1)*(1-u2)
U2QuadraticNoFactor(u1, u2) == Product(Sqrt(u1), Difference(Float(1), u2))

\* lines 87 and 328: tt.sqrt(u1)*(1-2*u2)
U2Quadratic(u1, u2) == Product(Sqrt(u1), Difference(Float(1), Product(Float(2), u2)))

\* pm.Deterministic(name, expression), lines 86-87 and 327-328
Deterministic(name, expr) == [kind |-> "deterministic", name |-> name, expr |-> expr]

Laws == {"uniform", "linear", "quadratic", "kipping2013"}

\* lines 84-97: the limb darkening of the differentiable build.  Returns the
\* star, the attributes (u1_quadratic and u2_quadratic are set on the model)
\* and the exception.
InitLimbDark(law, st, ns) ==
    IF law = "kipping2013"
    THEN LET miss == FirstMissing(ns, <<nu1, nu2>>)
         IN  IF miss # <<>>
             THEN [star |-> st, extra |-> <<>>, err |-> AttributeError(miss)]
             ELSE LET q1 == Deterministic("u1_quadratic", U1Quadratic(ns[nu1], ns[nu2]))
                      q2 == Deterministic("u2_quadratic", U2Quadratic(ns[nu1], ns[nu2]))
                  IN  [star |-> [st EXCEPT !.u = <<q1, q2>>],
                       extra |-> <<q1, q2>>, err |-> NoErr]
    ELSE IF law = "quadratic"
    THEN IF ~Has(ns, nu1)
         THEN [star |-> st, extra |-> <<>>, err |-> AttributeError(<<nu1>>)]
         ELSE IF ~Has(ns, nu2)
         THEN [star |-> [st EXCEPT !.u[1] = ns[nu1]], extra |-> <<>>,
               err |-> AttributeError(<<nu2>>)]
         ELSE [star |-> [st EXCEPT !.u = <<ns[nu1], ns[nu2]>>], extra |-> <<>>,
               err |-> NoErr]
    ELSE IF law = "linear"
    THEN IF ~Has(ns, nu1)
         THEN [star |-> st, extra |-> <<>>, err |-> AttributeError(<<nu1>>)]
         ELSE [star |-> [st EXCEPT !.u[1] = ns[nu1]], extra |-> <<>>, err |-> NoErr]
    ELSE IF law # "uniform"
    THEN [star |-> st, extra |-> <<>>, err |-> Error("ValueError", "limb_dark", <<>>)]
    ELSE [star |-> st, extra |-> <<>>, err |-> NoErr]

\* FitLimbDark with an unknown law treated as uniform.
FitLimbDarkSilent(law, st, ns) ==
    IF law \in {"kipping2013", "linear", "quadratic"}
    THEN InitLimbDark(law, st, ns)
    ELSE [star |-> st, extra |-> <<>>, err |-> NoErr]

\* lines 325-338: the limb darkening of the concrete build (the same branches,
\* linear before quadratic).
FitLimbDark(law, st, ns) ==
    IF law = "kipping2013"
    THEN LET miss == FirstMissing(ns, <<nu1, nu2>>)
         IN  IF miss # <<>>
             THEN [star |-> st, extra |-> <<>>, err |-> AttributeError(miss)]
             ELSE LET q1 == Deterministic("u1_quadratic", U1Quadratic(ns[nu1], ns[nu2]))
                      q2 == Deterministic("u2_quadratic", U2Quadratic(ns[nu1], ns[nu2]))
                  IN  [star |-> [st EXCEPT !.u = <<q1, q2>>],
                       extra |-> <<q1, q2>>, err |-> NoErr]
    ELSE IF law = "linear"
    THEN IF ~Has(ns, nu1)
         THEN [star |-> st, extra |-> <<>>, err |-> AttributeError(<<nu1>>)]
         ELSE [star |-> [st EXCEPT !.u[1] = ns[nu1]], extra |-> <<>>, err |-> NoErr]
    ELSE IF law = "quadratic"
    THEN IF ~Has(ns, nu1)
         THEN [star |-> st, extra |-> <<>>, err |-> AttributeError(<<nu1>>)]
         ELSE IF ~Has(ns, nu2)
         THEN [star |-> [st EXCEPT !.u[1] = ns[nu1]], extra |-> <<>>,
               err |-> AttributeError(<<nu2>>)]
         ELSE [star |-> [st EXCEPT !.u = <<ns[nu1], ns[nu2]>>], extra |-> <<>>,
               err |-> NoErr]
    ELSE IF law # "uniform"
    THEN [star |-> st, extra |-> <<>>, err |-> Error("ValueError", "limb_dark", <<>>)]
    ELSE [star |-> st, extra |-> <<>>, err |-> NoErr]

\* lines 100-105 and 341-346
Ydeg(ns) ==
    IF Has(ns, nAmpCos2) \/ Has(ns, nAmpSin2) THEN 2
    ELSE IF Has(ns, nAmpCos1) \/ Has(ns, nAmpSin1) THEN 1
    ELSE 0

Default == [kind |-> "default"]

\* m = Mp*const.M_jup.value/const.M_sun.value
MjupToMsun(x) == [kind |-> "Mjup_to_Msun", x |-> x]


\* lines 124-132 and 365-373: the harmonic coefficients set on the planet map
\* (<<l, m>> -> value); AmpCos2 and AmpSin2 are set only when ydeg is 2.
PlanetMap(ns) ==
    LET c1 == IF Has(ns, nAmpCos1) THEN (<<1, 0>> :> ns[nAmpCos1]) ELSE <<>>
        s1 == IF Has(ns, nAmpSin1) THEN (<<1, 1>> :> ns[nAmpSin1]) ELSE <<>>
        c2 == IF Ydeg(ns) = 2 /\ Has(ns, nAmpCos2) THEN (<<2, 0>> :> ns[nAmpCos2]) ELSE <<>>
        s2 == IF Ydeg(ns) = 2 /\ Has(ns, nAmpSin2) THEN (<<2, 1>> :> ns[nAmpSin2]) ELSE <<>>
    IN  c1 @@ s1 @@ c2 @@ s2

\* lines 106-134: the planet of the differentiable build.  a is given to the
\* constructor; porb and prot are assigned afterwards.
InitPlanetObj(ns) ==
    LET miss == FirstMissing(ns, <<nMp, nrp, nRs, na, ninc, necc, nw>>)
    IN  IF miss # <<>>
        THEN [obj |-> NoObj, err |-> AttributeError(miss)]
        ELSE LET p == [kind |-> "Secondary", ydeg |-> Ydeg(ns),
                       amp |-> IF Has(ns, nfp) THEN ns[nfp] ELSE Float(0),
                       m |-> MjupToMsun(ns[nMp]), r |-> Product(ns[nrp], ns[nRs]),
                       a |-> ns[na], porb |-> Default, prot |-> Default,
                       inc |-> ns[ninc], ecc |-> ns[necc], w |-> ns[nw],
                       y |-> <<>>, theta0 |-> Default, tref |-> Default]
             IN  IF ~Has(ns, nper)
                 THEN [obj |-> p, err |-> AttributeError(<<nper>>)]
                 ELSE [obj |-> [p EXCEPT !.porb = ns[nper], !.prot = ns[nper],
                                         !.y = PlanetMap(ns),
                                         !.theta0 = Float(180), !.tref = Float(0)],
                       err |-> NoErr]

\* lines 351-375: the planet of the concrete build.  amp is fit.fp; porb and
\* prot are given to the constructor and a is not.
FitPlanetObj(ns) ==
    LET miss == FirstMissing(ns, <<nfp, nMp, nrp, nRs, nper, ninc, necc, nw>>)
    IN  IF miss # <<>>
        THEN [obj |-> NoObj, err |-> AttributeError(miss)]
        ELSE [obj |-> [kind |-> "Secondary", ydeg |-> Ydeg(ns), amp |-> ns[nfp],
                       m |-> MjupToMsun(ns[nMp]), r |-> Product(ns[nrp], ns[nRs]),
                       a |-> Default, porb |-> ns[nper], prot |-> ns[nper],
                       inc |-> ns[ninc], ecc |-> ns[necc], w |-> ns[nw],
                       y |-> PlanetMap(ns), theta0 |-> Float(180), tref |-> Float(0)],
              err |-> NoErr]

\* lines 137 and 378: starry.System(star, planet)
System(st, pl) == [kind |-> "System", primary |-> st, secondary |-> pl]

(***************************************************************************)
(* The parameter tables the model is built from.                           *)
(***************************************************************************)
nu1_quadratic == <<"u", "1", "_", "q", "u", "a", "d", "r", "a", "t", "i", "c">>
nu2_quadratic == <<"u", "2", "_", "q", "u", "a", "d", "r", "a", "t", "i", "c">>

CoreSeq == <<nMs, nMp, nRs, nrp, na, ninc, necc, nw, nper, nfp>>
OptSeq == <<nu1, nu2, nAmpCos1, nAmpSin1, nAmpCos2, nAmpSin2, nc0, nscatter_mult,
            nscatter_ppm>>
AllSeq == CoreSeq \o OptSeq

\* The table value of a parameter: its position in AllSeq, so that no two
\* parameters hold the same value.
ValueOf(name) ==
    IF name \in Range(AllSeq)
    THEN CHOOSE i \in 1..Len(AllSeq) : AllSeq[i] = name
    ELSE Len(AllSeq) + Len(name)

Priors == {"U", "N", "LU"}

Param(name, ptype, prior) ==
    [ptype |-> ptype, prior |-> prior, priorpar1 |-> ValueOf(name),
     priorpar2 |-> ValueOf(name) + 1, value |-> ValueOf(name)]

\* The names of a set, in the order of AllSeq.
Ordered(S) == SelectSeq(AllSeq, LAMBDA n : n \in S)

\* The optional names a parameter name list holds besides the core names.
ExtraSets ==
    {{}, {nu1}, {nu2}, {nu1, nu2}, {nAmpCos1}, {nAmpSin1}, {nAmpCos2}, {nAmpSin2},
     {nAmpCos1, nAmpSin1, nAmpCos2, nAmpSin2}, {nc0}, {nscatter_mult}, {nscatter_ppm},
     {nu1, nu2, nc0, nscatter_mult}}

\* The parameter name lists: the core names with optional names, and the core
\* names without some of Ms, Mp, Rs, fp.
TitleSets ==
    {Range(CoreSeq) \cup E : E \in ExtraSets}
    \cup {Range(CoreSeq) \ D : D \in SUBSET {nMs, nMp, nRs, nfp}}

\* The roles and priors a table gives: one parameter (the focus) takes any
\* role and prior, recognised or not, and the others are all fixed, or all
\* free or shared with one recognised prior.
FocusNames == {nMs, nrp, nfp, nc0, nu1}
FocusRoles ==
    {[ptype |-> t, prior |-> "U"] : t \in {"independent", "fixed", "other"}}
    \cup {[ptype |-> t, prior |-> p] : t \in {"free", "shared"}, p \in Priors \cup {"X"}}
BaseRoles ==
    {[ptype |-> "fixed", prior |-> "U"]}
    \cup {[ptype |-> t, prior |-> p] : t \in {"free", "shared"}, p \in Priors}

Tables(S) ==
    {[n \in S |-> Param(n, b.ptype, b.prior)] : b \in BaseRoles}
    \cup {[n \in S |-> IF n = f THEN Param(n, r.ptype, r.prior) ELSE Param(n, "fixed", "U")] :
            f \in FocusNames \cap S, r \in FocusRoles}

InitLaws == Laws \cup {"nonlinear"}

\* The state after super().__init__() and lines 28-37: nothing is built yet.
Unbuilt ==
    /\ pc = "new"
    /\ err = NoErr
    /\ attrs = <<>>
    /\ star = NoObj
    /\ planet = NoObj
    /\ sys = NoObj
    /\ fit_dict = NoObj
    /\ fit = NoObj
    /\ fiterr = NoErr
    /\ sysout = NoObj
    /\ time = NoObj
    /\ flux = NoObj
    /\ lc_unc = NoObj
    /\ obs = NoObj
    /\ evalout = NoObj

\* No MetaClass object and no file
NoMeta ==
    /\ meta = NoObj
    /\ metaerr = NoErr
    /\ disk = <<>>

Init ==
    /\ \E S \in TitleSets :
          /\ paramtitles = Ordered(S)
          /\ parameters \in Tables(S)
    /\ limb_dark \in InitLaws
    /\ nchan \in 1..MaxChan
    /\ Unbuilt
    /\ NoMeta

(***************************************************************************)
(* __init__                                                                *)
(***************************************************************************)
\* Missing that looks for Ms and Mp only.
MissingNoRs(titles) == SelectSeq(<<nMs, nMp>>, LAMBDA n : n \notin Range(titles))

\* lines 39-42: required[missing], the required names paramtitles lacks
Missing(titles) == SelectSeq(required, LAMBDA n : n \notin Range(titles))

Fail(e) == pc' = "failed" /\ err' = e

CheckRequired ==
    /\ pc = "new"
    /\ IF Missing(paramtitles) # <<>>
       THEN Fail(Error("AssertionError", "required", Missing(paramtitles)))
       ELSE pc' = "params" /\ err' = err
    /\ UNCHANGED <<paramtitles, parameters, limb_dark, nchan, attrs, star, planet, sys,
                   fit_dict, fit, fiterr, sysout>>
    /\ UNCHANGED setupvars
    /\ UNCHANGED metavars

\* lines 44-72
BindParams ==
    /\ pc = "params"
    /\ LET r == ParamLoop(1, attrs, paramtitles, parameters, nchan)
       IN  /\ attrs' = r.attrs
           /\ IF r.err # NoErr THEN Fail(r.err) ELSE pc' = "star" /\ err' = err
    /\ UNCHANGED <<paramtitles, parameters, limb_dark, nchan, star, planet, sys,
                   fit_dict, fit, fiterr, sysout>>
    /\ UNCHANGED setupvars
    /\ UNCHANGED metavars

\* lines 74-81
InitStar ==
    /\ pc = "star"
    /\ LET r == MakeStar(attrs)
       IN  /\ star' = r.obj
           /\ IF r.err # NoErr THEN Fail(r.err) ELSE pc' = "limb" /\ err' = err
    /\ UNCHANGED <<paramtitles, parameters, limb_dark, nchan, attrs, planet, sys,
                   fit_dict, fit, fiterr, sysout>>
    /\ UNCHANGED setupvars
    /\ UNCHANGED metavars

\* lines 83-97
LimbDark ==
    /\ pc = "limb"
    /\ LET r == InitLimbDark(limb_dark, star, attrs)
       IN  /\ star' = r.star
           /\ attrs' = IF r.extra = <<>> THEN attrs
                       ELSE (nu1_quadratic :> r.extra[1]) @@ (nu2_quadratic :> r.extra[2])
                            @@ attrs
           /\ IF r.err # NoErr THEN Fail(r.err) ELSE pc' = "planet" /\ err' = err
    /\ UNCHANGED <<paramtitles, parameters, limb_dark, nchan, planet, sys,
                   fit_dict, fit, fiterr, sysout>>
    /\ UNCHANGED setupvars
    /\ UNCHANGED metavars

\* lines 99-134
InitPlanet ==
    /\ pc = "planet"
    /\ LET r == InitPlanetObj(attrs)
       IN  /\ planet' = r.obj
           /\ IF r.err # NoErr THEN Fail(r.err) ELSE pc' = "system" /\ err' = err
    /\ UNCHANGED <<paramtitles, parameters, limb_dark, nchan, attrs, star, sys,
                   fit_dict, fit, fiterr, sysout>>
    /\ UNCHANGED setupvars
    /\ UNCHANGED metavars

\* lines 136-137
MakeSystem ==
    /\ pc = "system"
    /\ sys' = System(star, planet)
    /\ pc' = "built"
    /\ UNCHANGED <<paramtitles, parameters, limb_dark, nchan, err, attrs, star, planet,
                   fit_dict, fit, fiterr, sysout>>
    /\ UNCHANGED setupvars
    /\ UNCHANGED metavars

(***************************************************************************)
(* The parameters setter, lines 166-178: a caller replaces the Parameters  *)
(* instance of a built model.  The instances assigned here differ from the *)
(* current one in the limb darkening law only, which they set to a law     *)
(* starry does not know.                                                   *)
(***************************************************************************)
SwapLaws == {"nonlinear"}

SetParameters(law) ==
    /\ pc = "built"
    /\ limb_dark # law
    /\ limb_dark' = law
    /\ UNCHANGED <<paramtitles, parameters, nchan, pc, err, attrs, star, planet, sys,
                   fit_dict, fit, fiterr, sysout>>
    /\ UNCHANGED setupvars
    /\ UNCHANGED metavars

(***************************************************************************)
(* The fit_dict setter, lines 301-382.                                     *)
(***************************************************************************)
\* The value a key of an ordered dict maps to.
Lookup(d, key) == d[CHOOSE i \in 1..Len(d) : d[i][1] = key][2]
Keys(d) == {d[i][1] : i \in 1..Len(d)}

\* The attributes of a fit object that starts from the previous one
FitNamespaceKept(d, titles, params) ==
    LET fixed == {n \in Range(titles) : params[n].ptype = "fixed"}
        old == IF fit = NoObj THEN {} ELSE DOMAIN fit.ns
    IN  [n \in Keys(d) \cup fixed \cup old |->
            IF n \in fixed THEN Float(params[n].value)
            ELSE IF n \in Keys(d) THEN Lookup(d, n) ELSE fit.ns[n]]

\* lines 305-314: the attributes of the fit object: the entries of the dict,
\* then the table value of every fixed parameter of paramtitles.
FitNamespace(d, titles, params) ==
    LET fixed == {n \in Range(titles) : params[n].ptype = "fixed"}
    IN  [n \in Keys(d) \cup fixed |->
            IF n \in fixed THEN Float(params[n].value) ELSE Lookup(d, n)]

\* lines 316-380: the concrete model, or the exception raised on the way.
FitBuild(d, titles, params, law) ==
    LET ns == FitNamespace(d, titles, params)
        st == MakeStar(ns)
    IN  IF st.err # NoErr THEN [obj |-> NoObj, err |-> st.err]
        ELSE LET ld == FitLimbDark(law, st.obj, ns)
             IN  IF ld.err # NoErr THEN [obj |-> NoObj, err |-> ld.err]
                 ELSE LET pl == FitPlanetObj(ns)
                      IN  IF pl.err # NoErr THEN [obj |-> NoObj, err |-> pl.err]
                          ELSE [obj |-> [kind |-> "fit",
                                         ns |-> IF ld.extra = <<>> THEN ns
                                                ELSE (nu1_quadratic :> ld.extra[1])
                                                     @@ (nu2_quadratic :> ld.extra[2]) @@ ns,
                                         star |-> ld.star, planet |-> pl.obj,
                                         sys |-> System(ld.star, pl.obj)],
                                err |-> NoErr]

\* The names a fit point holds: the parameters of paramtitles that are sampled
\* variables of the model.
Fitted(titles, at) == SelectSeq(titles, LAMBDA n : Has(at, n) /\ at[n].kind = "rv")

\* The s-th fit point: the j-th fitted name holds 100*s + j.
FitPoint(s, titles, at) ==
    LET names == Fitted(titles, at)
    IN  [j \in 1..Len(names) |-> <<names[j], Float(100 * s + j)>>]

\* A fit point as the optimiser returns it: besides the value of every fitted
\* name it holds, for the first of them, the value on the transformed scale
\* of its prior, under the name with the suffix "_interval__".
IntervalSuffix == <<"_", "i", "n", "t", "e", "r", "v", "a", "l", "_", "_">>
WidePoint(s, titles, at) ==
    LET names == Fitted(titles, at)
    IN  IF names = <<>> THEN <<>>
        ELSE FitPoint(s, titles, at)
                 \o << <<names[1] \o IntervalSuffix, Float(100 * s)>> >>

\* self._fit_dict once it is assigned: the dict's items in insertion order
Dict(items) == [kind |-> "dict", items |-> items]

SetFitDict(d) ==
    /\ pc = "built"
    /\ fit_dict' = Dict(d)
    /\ LET r == FitBuild(d, paramtitles, parameters, limb_dark)
       IN  /\ fit' = IF r.err # NoErr THEN fit ELSE r.obj
           /\ fiterr' = r.err
    /\ UNCHANGED <<paramtitles, parameters, limb_dark, nchan, pc, err, attrs, star,
                   planet, sys, sysout>>
    /\ UNCHANGED setupvars
    /\ UNCHANGED metavars

Next ==
    \/ CheckRequired
    \/ BindParams
    \/ InitStar
    \/ LimbDark
    \/ InitPlanet
    \/ MakeSystem
    \/ \E law \in SwapLaws : SetParameters(law)
    \/ \E s \in 1..MaxFit : SetFitDict(FitPoint(s, paramtitles, attrs))
    \/ SetFitDict(WidePoint(MaxFit + 1, paramtitles, attrs))

Spec == Init /\ [][Next]_vars

(***************************************************************************)
(* syseval, lines 204-226 and 245-265: the decoding of the coefficient     *)
(* names into the polynomial and the ramp table.                           *)
(***************************************************************************)
\* line 207: np.zeros((self.nchan, 10))
PolyTerms == 10
\* line 208: np.zeros((self.nchan, 6))
RampTerms == 6

Digits == {"0", "1", "2", "3", "4", "5", "6", "7", "8", "9"}
DigitVal(ch) ==
    CASE ch = "0" -> 0 [] ch = "1" -> 1 [] ch = "2" -> 2 [] ch = "3" -> 3 [] ch = "4" -> 4
      [] ch = "5" -> 5 [] ch = "6" -> 6 [] ch = "7" -> 7 [] ch = "8" -> 8 [] ch = "9" -> 9

\* str.lower(), on the upper-case letters the names of the model hold
LowerChar(ch) ==
    CASE ch = "A" -> "a" [] ch = "C" -> "c" [] ch = "M" -> "m" [] ch = "R" -> "r"
      [] ch = "S" -> "s" [] OTHER -> ch
Lower(k) == [i \in 1..Len(k) |-> LowerChar(k[i])]

\* k.lower().startswith(ch)
LowerStartsWith(k, ch) == Len(k) >= 1 /\ Lower(k)[1] = ch

\* k[1:]
DropFirst(k) == IF Len(k) = 0 THEN <<>> ELSE SubSeq(k, 2, Len(k))

\* k.split('_')
RECURSIVE Split(_)
Split(k) ==
    IF \A i \in 1..Len(k) : k[i] # "_"
    THEN <<k>>
    ELSE LET i == CHOOSE j \in 1..Len(k) : k[j] = "_" /\ \A h \in 1..(j - 1) : k[h] # "_"
         IN  <<SubSeq(k, 1, i - 1)>> \o Split(SubSeq(k, i + 1, Len(k)))

\* k.isdigit()
IsDigit(k) == Len(k) > 0 /\ \A i \in 1..Len(k) : k[i] \in Digits

\* int(k), for k.isdigit()
RECURSIVE ToInt(_)
ToInt(k) ==
    IF k = <<>> THEN 0 ELSE 10 * ToInt(SubSeq(k, 1, Len(k) - 1)) + DigitVal(k[Len(k)])

NoCell == [table |-> "none", chan |-> 0, term |-> 0]

\* PolyCell with the channel and the degree of a suffixed name exchanged.
PolyCellSwapped(name, n) ==
    LET k == DropFirst(name)
        remvisnum == Split(k)
    IN  IF IsDigit(k)
        THEN [table |-> "poly", chan |-> 0, term |-> ToInt(k)]
        ELSE IF Len(remvisnum) > 1 /\ n > 1
        THEN IF IsDigit(remvisnum[1]) /\ IsDigit(remvisnum[2])
             THEN [table |-> "poly", chan |-> ToInt(remvisnum[1]), term |-> ToInt(remvisnum[2])]
             ELSE NoCell
        ELSE NoCell

\* lines 212-218 and 251-257: the cell of poly_coeffs a name starting with c
\* is written to, if any.
PolyCell(name, n) ==
    LET k == DropFirst(name)
        remvisnum == Split(k)
    IN  IF IsDigit(k)
        THEN [table |-> "poly", chan |-> 0, term |-> ToInt(k)]
        ELSE IF Len(remvisnum) > 1 /\ n > 1
        THEN IF IsDigit(remvisnum[1]) /\ IsDigit(remvisnum[2])
             THEN [table |-> "poly", chan |-> ToInt(remvisnum[2]), term |-> ToInt(remvisnum[1])]
             ELSE NoCell
        ELSE NoCell

\* lines 220-226 and 259-265: the cell of ramp_coeffs a name starting with r
\* is written to, if any.  remvisnum is split from k[1:], after k has already
\* lost its first character.
RampCell(name, n) ==
    LET k == DropFirst(name)
        remvisnum == Split(DropFirst(k))
    IN  IF IsDigit(k)
        THEN [table |-> "ramp", chan |-> 0, term |-> ToInt(k)]
        ELSE IF Len(remvisnum) > 1 /\ n > 1
        THEN IF IsDigit(remvisnum[1]) /\ IsDigit(remvisnum[2])
             THEN [table |-> "ramp", chan |-> ToInt(remvisnum[2]), term |-> ToInt(remvisnum[1])]
             ELSE NoCell
        ELSE NoCell

\* lines 211-226 and 250-265: the cell a name is written to, if any.
CellOf(name, n) ==
    IF LowerStartsWith(name, "c") THEN PolyCell(name, n)
    ELSE IF LowerStartsWith(name, "r") THEN RampCell(name, n)
    ELSE NoCell

\* Whether a cell lies in its table; writing outside raises IndexError.
InTable(cell, n) ==
    /\ cell.chan < n
    /\ cell.term < (IF cell.table = "poly" THEN PolyTerms ELSE RampTerms)

\* lines 254, 257, 262, 265: the attribute the differentiable path reads for a
\* name: the letter c or r in lower case, then the name without its first
\* character.
AttrRead(name) == <<Lower(name)[1]>> \o DropFirst(name)

ZeroTable(n, terms) == [c \in 0..(n - 1) |-> [t \in 0..(terms - 1) |-> Float(0)]]

\* One iteration of the decoding loop: tb holds the two tables and the
\* exception raised so far.  has is whether the value can be read and v the
\* value (the right-hand side is evaluated before the cell is indexed).
DecodeOne(tb, name, has, v, n) ==
    LET cell == CellOf(name, n)
    IN  IF cell = NoCell THEN tb
        ELSE IF ~has
        THEN [tb EXCEPT !.err = AttributeError(<<AttrRead(name)>>)]
        ELSE IF ~InTable(cell, n)
        THEN [tb EXCEPT !.err = Error("IndexError", cell.table, <<name>>)]
        ELSE IF cell.table = "poly"
        THEN [tb EXCEPT !.poly[cell.chan][cell.term] = v]
        ELSE [tb EXCEPT !.ramp[cell.chan][cell.term] = v]

\* lines 207-226: the concrete path decodes the items of fit_dict.
RECURSIVE DecodeFit(_, _, _, _)
DecodeFit(i, tb, items, n) ==
    IF i > Len(items) \/ tb.err # NoErr THEN tb
    ELSE DecodeFit(i + 1, DecodeOne(tb, items[i][1], TRUE, items[i][2], n), items, n)

\* lines 246-265: the differentiable path decodes paramtitles and reads the
\* values from the model's attributes.
RECURSIVE DecodeTitles(_, _, _, _, _)
DecodeTitles(i, tb, titles, at, n) ==
    IF i > Len(titles) \/ tb.err # NoErr THEN tb
    ELSE LET a == AttrRead(titles[i])
             has == Has(at, a)
         IN  DecodeTitles(i + 1,
                          DecodeOne(tb, titles[i], has, IF has THEN at[a] ELSE Float(0), n),
                          titles, at, n)

EmptyTables(n) ==
    [poly |-> ZeroTable(n, PolyTerms), ramp |-> ZeroTable(n, RampTerms), err |-> NoErr]

(***************************************************************************)
(* syseval, lines 228-243 and 267-282: the systematics flux.  A time and a *)
(* coefficient are integers.  A flux sample r0*exp(a) + r3*exp(b) + 1,     *)
(* multiplied by a polynomial value, is held as the function that gives    *)
(* each power of e its coefficient (powers with coefficient 0 left out),   *)
(* which is exact: exp(0) is the power 0, of coefficient 1.                *)
(***************************************************************************)
\* An array (np.ndarray or a list of numbers)
Array(v) == [kind |-> "array", values |-> v]

ntime == <<"t", "i", "m", "e">>
nt0 == <<"t", "0">>
nfit == <<"f", "i", "t">>

\* The value of a table entry at a point (the items of a dict): a number is
\* itself, a sampled variable is the point's value of its name.
Num(b, pt) ==
    CASE b.kind \in {"float", "constant"} -> b.value
      [] b.kind = "rv" /\ ~b.exp -> Lookup(pt, b.name).value

RECURSIVE SumSeq(_)
SumSeq(q) == IF q = <<>> THEN 0 ELSE Head(q) + SumSeq(Tail(q))

\* self.time.mean(), for a time array whose mean is an integer
Mean(t) == SumSeq(t) \div Len(t)

RECURSIVE Pow(_, _)
Pow(x, p) == IF p = 0 THEN 1 ELSE x * Pow(x, p - 1)

\* line 228: the columns of poly_coeffs that are kept, in ascending order:
\* those that are not zero in every channel.
KeptColumns(poly, n) ==
    SelectSeq([t \in 1..PolyTerms |-> t - 1],
              LAMBDA t : ~(\A c \in 0..(n - 1) : poly[c][t].value = 0))

\* lines 229 and 233-234: np.polyval(np.poly1d(row), x) of a row of the
\* trimmed and flipped table: the j-th kept column multiplies x^(j-1).
RECURSIVE PolyVal(_, _, _, _)
PolyVal(row, kept, j, x) ==
    IF j > Len(kept) THEN 0
    ELSE row[kept[j]].value * Pow(x, j - 1) + PolyVal(row, kept, j + 1, x)

\* lines 270-272: the sum of poly_coeffs[c][power] * time_poly**power over
\* the powers of the table, at a point.
RECURSIVE PolySum(_, _, _, _)
PolySum(row, power, x, pt) ==
    IF power = PolyTerms THEN 0
    ELSE Num(row[power], pt) * Pow(x, power) + PolySum(row, power + 1, x, pt)

\* lines 239-240 and 278-279: r0*exp(-r1*dt + r2) + r3*exp(-r4*dt + r5) + 1
RampVal(r, dt, pt) ==
    LET v == [k \in 0..(RampTerms - 1) |-> Num(r[k], pt)]
        terms == << <<(0 - v[1]) * dt + v[2], v[0]>>, <<(0 - v[4]) * dt + v[5], v[3]>>,
                    <<0, 1>> >>
        Coef(x) == SumSeq([i \in 1..3 |-> IF terms[i][1] = x THEN terms[i][2] ELSE 0])
    IN  [x \in {terms[i][1] : i \in {h \in 1..3 : Coef(terms[h][1]) # 0}} |-> Coef(x)]

\* poly_flux*ramp_flux at one sample
Scale(p, f) == [x \in (IF p = 0 THEN {} ELSE DOMAIN f) |-> p * f[x]]

\* The channel and the time index of the i-th sample of a flat sequence of
\* channels of len samples each (np.append and tt.concatenate over range(nchan)).
ChanOf(i, len) == (i - 1) \div len
IndexOf(i, len) == ((i - 1) % len) + 1

\* A sample of a flux that is computed: a sum of powers of e
Number(f) == [kind |-> "number", sum |-> f]

\* lines 228-243: the concrete systematics flux.
ConcreteFlux(poly, ramp, t, n) ==
    LET kept == KeptColumns(poly, n)
    IN  [i \in 1..(n * Len(t)) |->
            LET c == ChanOf(i, Len(t))
                k == IndexOf(i, Len(t))
            IN  Number(Scale(PolyVal(poly[c], kept, 1, t[k] - Mean(t)),
                             RampVal(ramp[c], t[k] - t[1], <<>>)))]

\* lines 267-282: the differentiable systematics flux, an expression of the
\* model's variables: each sample holds the coefficients and the times it is
\* computed from.
LazyFlux(poly, ramp, t, n) ==
    [i \in 1..(n * Len(t)) |->
        LET c == ChanOf(i, Len(t))
            k == IndexOf(i, Len(t))
        IN  [kind |-> "lazy", poly |-> poly[c], time_poly |-> t[k] - Mean(t),
             ramp |-> ramp[c], time_ramp |-> t[k] - t[1]]]

\* The value of a sample of the differentiable flux at a point.
AtPoint(smp, pt) ==
    Scale(PolySum(smp.poly, 0, smp.time_poly, pt), RampVal(smp.ramp, smp.time_ramp, pt))

\* lines 228-243 and 267-282: what syseval returns or raises once the
\* decoding loop has left the tables tb.  Reading self.time before setup has
\* stored it raises AttributeError (lines 231 and 268).
SysevalFlux(eval, tb, t, n) ==
    IF tb.err # NoErr
    THEN [kind |-> "syseval", eval |-> eval, err |-> tb.err, poly |-> <<>>, ramp |-> <<>>,
          flux |-> <<>>]
    ELSE IF t = NoObj
    THEN [kind |-> "syseval", eval |-> eval, err |-> AttributeError(<<ntime>>),
          poly |-> <<>>, ramp |-> <<>>, flux |-> <<>>]
    ELSE [kind |-> "syseval", eval |-> eval, err |-> NoErr, poly |-> tb.poly,
          ramp |-> tb.ramp,
          flux |-> IF eval THEN ConcreteFlux(tb.poly, tb.ramp, t.values, n)
                   ELSE LazyFlux(tb.poly, tb.ramp, t.values, n)]

\* syseval, lines 204-282: what a call returns or raises.
SysevalOf(eval, t, at, fd, titles, n) ==
    SysevalFlux(eval,
                IF eval THEN DecodeFit(1, EmptyTables(n), fd.items, n)
                ELSE DecodeTitles(1, EmptyTables(n), titles, at, n),
                t, n)

Syseval(eval) ==
    /\ pc = "built"
    /\ eval => fit_dict # NoObj
    /\ sysout' = SysevalOf(eval, time, attrs, fit_dict, paramtitles, nchan)
    /\ UNCHANGED <<paramtitles, parameters, limb_dark, nchan, pc, err, attrs, star,
                   planet, sys, fit_dict, fit, fiterr>>
    /\ UNCHANGED setupvars
    /\ UNCHANGED metavars

(***************************************************************************)
(* physeval (lines 284-295) and eval (lines 201-202).  The flux starry     *)
(* computes for a system at a time is not computed here: a sample of the   *)
(* astrophysical flux names the system, the time and the reference time.   *)
(***************************************************************************)
\* sys.flux(new_time - t0) at one time
StarryFlux(system, t, t0) == [kind |-> "starry", sys |-> system, t |-> t, t0 |-> t0]

\* physeval(interp=False, eval): the first element of what it returns, or the
\* exception raised reading self.time, self.fit or t0.
PhysevalOf(eval, t, at, system, fitobj) ==
    IF t = NoObj
    THEN [err |-> AttributeError(<<ntime>>), flux |-> <<>>]
    ELSE IF eval
    THEN IF fitobj = NoObj
         THEN [err |-> AttributeError(<<nfit>>), flux |-> <<>>]
         ELSE IF ~Has(fitobj.ns, nt0)
         THEN [err |-> AttributeError(<<nt0>>), flux |-> <<>>]
         ELSE [err |-> NoErr,
               flux |-> [k \in 1..Len(t.values) |->
                            StarryFlux(fitobj.sys, t.values[k], fitobj.ns[nt0])]]
    ELSE IF ~Has(at, nt0)
    THEN [err |-> AttributeError(<<nt0>>), flux |-> <<>>]
    ELSE [err |-> NoErr,
          flux |-> [k \in 1..Len(t.values) |-> StarryFlux(system, t.values[k], at[nt0])]]

\* The product of two flux samples
Times(x, y) == [kind |-> "times", phys |-> x, sys |-> y]

\* a*b for two one-dimensional arrays: element by element when the lengths
\* agree, an array of length 1 is broadcast, and any other pair of lengths
\* raises ValueError (in the differentiable path, when the graph is evaluated).
Multiply(a, b) ==
    IF Len(a) = Len(b)
    THEN [err |-> NoErr, flux |-> [i \in 1..Len(a) |-> Times(a[i], b[i])]]
    ELSE IF Len(a) = 1
    THEN [err |-> NoErr, flux |-> [i \in 1..Len(b) |-> Times(a[1], b[i])]]
    ELSE IF Len(b) = 1
    THEN [err |-> NoErr, flux |-> [i \in 1..Len(a) |-> Times(a[i], b[1])]]
    ELSE [err |-> Error("ValueError", "shape", <<>>), flux |-> <<>>]

\* The outcome of a call of eval
EvalResult(eval, e, fl) == [kind |-> "eval", eval |-> eval, err |-> e, flux |-> fl]
ProductResult(eval, m) == EvalResult(eval, m.err, m.flux)

\* line 202: the product of what physeval and syseval return; physeval is
\* called first, and an exception of either call is the exception of eval.
EvalProduct(eval, ph, sy) ==
    IF ph.err # NoErr THEN EvalResult(eval, ph.err, <<>>)
    ELSE IF sy.err # NoErr THEN EvalResult(eval, sy.err, <<>>)
    ELSE ProductResult(eval, Multiply(ph.flux, sy.flux))

\* eval, line 202: self.physeval(eval=eval)[0]*self.syseval(eval=eval)
EvalOf(eval, t, at, system, fitobj, fd, titles, n) ==
    EvalProduct(eval, PhysevalOf(eval, t, at, system, fitobj),
                SysevalOf(eval, t, at, fd, titles, n))

Eval(eval) ==
    /\ pc = "built"
    /\ eval => fit_dict # NoObj
    /\ evalout' = EvalOf(eval, time, attrs, sys, fit, fit_dict, paramtitles, nchan)
    /\ UNCHANGED <<paramtitles, parameters, limb_dark, nchan, pc, err, attrs, star,
                   planet, sys, fit_dict, fit, fiterr, sysout, time, flux, lc_unc, obs>>
    /\ UNCHANGED metavars

(***************************************************************************)
(* setup, lines 180-199.                                                   *)
(***************************************************************************)
\* line 188: pm.Deterministic("scatter_ppm", self.scatter_mult*self.lc_unc)
ScatterPpm(mult, unc) ==
    [kind |-> "scaled", name |-> "scatter_ppm", mult |-> mult, unc |-> unc]

\* The attributes when a scatter_ppm of the model is preferred to the multiplier
SetupAttrsPpmFirst(at, unc) ==
    IF Has(at, nscatter_ppm) THEN at
    ELSE IF Has(at, nscatter_mult)
    THEN (nscatter_ppm :> ScatterPpm(at[nscatter_mult], unc)) @@ at
    ELSE (nscatter_ppm :> unc) @@ at

\* lines 186-191: the attributes once the noise scale is chosen
SetupAttrs(at, unc) ==
    LET a1 == IF Has(at, nscatter_mult)
              THEN (nscatter_ppm :> ScatterPpm(at[nscatter_mult], unc)) @@ at
              ELSE at
    IN  IF ~Has(a1, nscatter_ppm) THEN (nscatter_ppm :> unc) @@ a1 ELSE a1

\* line 197: pm.Normal("obs", mu=..., sd=..., observed=...)
Likelihood(mu, sd, observed) ==
    [kind |-> "Normal", name |-> "obs", err |-> NoErr, mu |-> mu, sd |-> sd,
     observed |-> observed]

\* line 197 once its arguments are evaluated: an exception of eval leaves no
\* likelihood.
Observe(mu, sd, observed) ==
    IF mu.err # NoErr THEN [kind |-> "raised", err |-> mu.err]
    ELSE Likelihood(mu.flux, sd, observed)

\* setup is called once on a built model; when eval raises, so does setup,
\* after the time, the flux, the uncertainties and scatter_ppm are stored.
Setup(t, f, u) ==
    /\ pc = "built"
    /\ time = NoObj
    /\ time' = Array(t)
    /\ flux' = Array(f)
    /\ lc_unc' = Array(u)
    /\ attrs' = SetupAttrs(attrs, Array(u))
    /\ obs' = Observe(EvalOf(FALSE, time', attrs', sys, fit, fit_dict, paramtitles, nchan),
                      attrs'[nscatter_ppm], flux')
    /\ UNCHANGED <<paramtitles, parameters, limb_dark, nchan, pc, err, star, planet, sys,
                   fit_dict, fit, fiterr, sysout, evalout>>
    /\ UNCHANGED metavars

(***************************************************************************)
(* The models whose systematics coefficients are decoded: the core         *)
(* parameters, all fixed, followed by up to two coefficient names.  Every  *)
(* coefficient is free with a uniform prior, except at most one, which is  *)
(* independent or fixed.                                                   *)
(***************************************************************************)
DecSeq ==
    << <<"c", "0">>, <<"c", "1">>, <<"c", "9">>, <<"c", "1", "0">>, <<"c", "0", "1">>,
       <<"C", "1">>, <<"c", "1", "_", "0">>, <<"c", "1", "_", "1">>, <<"c", "0", "_", "2">>,
       <<"c">>, <<"c", "_", "1">>, <<"c", "1", "_">>, <<"c", "1", "_", "1", "_", "0">>,
       <<"r", "0">>, <<"r", "5">>, <<"r", "6">>, <<"R", "0">>, <<"r", "0", "_", "1">>,
       <<"r", "1", "_", "0">>, <<"r", "1", "0", "_", "1">>, <<"r", "x", "1", "_", "0">> >>

\* The time array setup is given
DecTime == <<0, 2>>

\* The names a list of two coefficient names starts with.
PairFirst == {<<"c", "0">>, <<"c", "1">>, <<"C", "1">>, <<"r", "0">>}

DecLists ==
    {<<>>} \cup {<<a>> : a \in Range(DecSeq)}
    \cup {p \in PairFirst \X Range(DecSeq) : p[1] # p[2]}

DecTables(coefs) ==
    {[n \in Range(CoreSeq) \cup Range(coefs) |->
         IF n \in Range(CoreSeq) THEN Param(n, "fixed", "U")
         ELSE IF odd > 0 /\ n = coefs[odd] THEN Param(n, role, "U")
         ELSE Param(n, "free", "U")] :
       odd \in 0..Len(coefs), role \in {"independent", "fixed"}}

InitDecode ==
    /\ \E coefs \in DecLists :
          /\ paramtitles = CoreSeq \o coefs
          /\ parameters \in DecTables(coefs)
    /\ limb_dark = "uniform"
    /\ nchan \in 1..MaxChan
    /\ Unbuilt
    /\ NoMeta

NextDecode ==
    \/ CheckRequired
    \/ BindParams
    \/ InitStar
    \/ LimbDark
    \/ InitPlanet
    \/ MakeSystem
    \/ \E s \in 1..MaxFit : SetFitDict(FitPoint(s, paramtitles, attrs))
    \/ Setup(DecTime, [k \in 1..Len(DecTime) |-> 1], [k \in 1..Len(DecTime) |-> 1])
    \/ \E eval \in BOOLEAN : Syseval(eval)

SpecDecode == InitDecode /\ [][NextDecode]_vars

(***************************************************************************)
(* The models that are evaluated: the core parameters and t0, all fixed,   *)
(* followed by up to three systematics coefficients or noise parameters,   *)
(* whose table values are small integers.  The coefficients are all free,  *)
(* or all fixed, or (with per-channel slopes) a shared c0 and free slopes. *)
(* The fit point of such a model gives every sampled variable its table    *)
(* value.                                                                  *)
(***************************************************************************)
nc2 == <<"c", "2">>
nc1_0 == <<"c", "1", "_", "0">>
nc1_1 == <<"c", "1", "_", "1">>
nr0 == <<"r", "0">>
nr1 == <<"r", "1">>
nr2 == <<"r", "2">>
nr3 == <<"r", "3">>
nr4 == <<"r", "4">>
nr5 == <<"r", "5">>

EvalLists ==
    {<<>>, <<nc0>>, <<nc1>>, <<nc2>>, <<nc0, nc1>>, <<nc0, nc1, nc2>>, <<nc0, nc1_0, nc1_1>>,
     <<nc0, nr0, nr1>>, <<nc0, nr0, nr2>>, <<nc0, nr3, nr4>>, <<nc0, nr3, nr5>>,
     <<nc0, nscatter_mult>>, <<nc0, nscatter_ppm>>, <<nc0, nscatter_mult, nscatter_ppm>>}

EvalValues == {0, 1, 2}

\* The table values of a name: a polynomial coefficient may be 0, a ramp or
\* noise parameter is 1 or 2.
EvalValuesOf(n) == IF Head(n) = "c" THEN EvalValues ELSE EvalValues \ {0}

EvalRoles(coefs) ==
    IF nc1_0 \in Range(coefs) THEN {"free", "fixed", "shared"} ELSE {"free", "fixed"}

EvalTables(coefs) ==
    {[n \in Range(CoreSeq) \cup {nt0} \cup Range(coefs) |->
         IF n \notin Range(coefs) THEN Param(n, "fixed", "U")
         ELSE [Param(n, IF role = "shared" /\ n # nc0 THEN "free" ELSE role, "U")
                  EXCEPT !.value = v[n]]] :
       role \in EvalRoles(coefs),
       v \in {w \in [Range(coefs) -> EvalValues] : \A n \in Range(coefs) : w[n] \in EvalValuesOf(n)}}

\* The time arrays setup is given, with the observed fluxes and uncertainties
EvalTimes == {<<0, 2>>, <<1, 2, 3>>}
EvalFlux(t) == [k \in 1..Len(t) |-> 1]
EvalUnc(t) == [k \in 1..Len(t) |-> k]

EvalPoint(titles, at, params) ==
    LET names == Fitted(titles, at)
    IN  [j \in 1..Len(names) |-> <<names[j], Float(params[names[j]].value)>>]

InitEval ==
    /\ \E coefs \in EvalLists :
          /\ paramtitles = CoreSeq \o <<nt0>> \o coefs
          /\ parameters \in EvalTables(coefs)
    /\ limb_dark = "uniform"
    /\ nchan \in 1..MaxChan
    /\ Unbuilt
    /\ NoMeta

NextEval ==
    \/ CheckRequired
    \/ BindParams
    \/ InitStar
    \/ LimbDark
    \/ InitPlanet
    \/ MakeSystem
    \/ SetFitDict(EvalPoint(paramtitles, attrs, parameters))
    \/ \E t \in EvalTimes : Setup(t, EvalFlux(t), EvalUnc(t))
    \/ \E eval \in BOOLEAN : Syseval(eval)
    \/ \E eval \in BOOLEAN : Eval(eval)

SpecEval == InitEval /\ [][NextEval]_vars

(***************************************************************************)
(* A model of eureka.lib.readECF.MetaClass on a POSIX system (os.sep is    *)
(* "/").  A string is a sequence of one-character strings, so that         *)
(* replace, strip, split, join and the path functions are computed         *)
(* character by character.                                                 *)
(***************************************************************************)
Str(s) == [kind |-> "str", s |-> s]
IntVal(v) == [kind |-> "int", value |-> v]
None == [kind |-> "None"]

\* os.sep
Sep == "/"
Quote == "\""
Backslash == "\\"
Whitespace == {" ", "\t", "\n"}

\* s.startswith(p)
StartsWith(s, p) == Len(s) >= Len(p) /\ SubSeq(s, 1, Len(p)) = p

\* s.replace(old, new), for a non-empty old: the occurrences are replaced
\* from the left, without overlap.
RECURSIVE Replace(_, _, _)
Replace(s, old, new) ==
    IF s = <<>> THEN <<>>
    ELSE IF StartsWith(s, old)
    THEN new \o Replace(SubSeq(s, Len(old) + 1, Len(s)), old, new)
    ELSE <<Head(s)>> \o Replace(Tail(s), old, new)

\* s.split(ch): the pieces between the occurrences of ch, empty ones included
RECURSIVE SplitOn(_, _)
SplitOn(s, ch) ==
    IF ch \notin Range(s) THEN <<s>>
    ELSE LET i == CHOOSE j \in 1..Len(s) : s[j] = ch /\ \A h \in 1..(j - 1) : s[h] # ch
         IN  <<SubSeq(s, 1, i - 1)>> \o SplitOn(SubSeq(s, i + 1, Len(s)), ch)

\* sep.join(parts)
RECURSIVE JoinWith(_, _)
JoinWith(sep, parts) ==
    IF parts = <<>> THEN <<>>
    ELSE IF Len(parts) = 1 THEN parts[1]
    ELSE parts[1] \o sep \o JoinWith(sep, Tail(parts))

\* s.strip()
RECURSIVE LStrip(_)
LStrip(s) == IF s # <<>> /\ Head(s) \in Whitespace THEN LStrip(Tail(s)) ELSE s
RECURSIVE RStrip(_)
RStrip(s) ==
    IF s # <<>> /\ s[Len(s)] \in Whitespace THEN RStrip(SubSeq(s, 1, Len(s) - 1)) ELSE s
Strip(s) == RStrip(LStrip(s))

\* s.split(): the runs of characters that are not whitespace
RECURSIVE Words(_, _)
Words(s, cur) ==
    IF s = <<>> THEN (IF cur = <<>> THEN <<>> ELSE <<cur>>)
    ELSE IF Head(s) \in Whitespace
    THEN (IF cur = <<>> THEN <<>> ELSE <<cur>>) \o Words(Tail(s), <<>>)
    ELSE Words(Tail(s), Append(cur, Head(s)))
SplitWords(s) == Words(s, <<>>)

\* shlex.split(s, posix=False), for a line whose double quotes are balanced
\* and open at the start of a word: the words between whitespace, a quoted
\* stretch keeping its whitespace and its quotes.
RECURSIVE ShlexWords(_, _, _)
ShlexWords(s, cur, quoted) ==
    IF s = <<>> THEN (IF cur = <<>> THEN <<>> ELSE <<cur>>)
    ELSE IF Head(s) = Quote THEN ShlexWords(Tail(s), Append(cur, Head(s)), ~quoted)
    ELSE IF Head(s) \in Whitespace /\ ~quoted
    THEN (IF cur = <<>> THEN <<>> ELSE <<cur>>) \o ShlexWords(Tail(s), <<>>, FALSE)
    ELSE ShlexWords(Tail(s), Append(cur, Head(s)), quoted)
ShlexSplit(s) == ShlexWords(s, <<>>, FALSE)

\* line 205-208: eval(val), val kept when eval raises.  A string literal in
\* double quotes evaluates to its contents and a run of digits to a number;
\* a path or a bare word that is no Python name raises and stays a string.
IsLiteral(s) ==
    /\ Len(s) >= 2
    /\ s[1] = Quote /\ s[Len(s)] = Quote
    /\ \A i \in 2..(Len(s) - 1) : s[i] \notin {Quote, Backslash}
IsNumber(s) == s # <<>> /\ s[1] # "0" /\ \A i \in 1..Len(s) : s[i] \in Digits
EvalOrKeep(s) ==
    IF IsLiteral(s) THEN Str(SubSeq(s, 2, Len(s) - 1))
    ELSE IF IsNumber(s) THEN IntVal(ToInt(s))
    ELSE Str(s)

(***************************************************************************)
(* os.path on POSIX                                                        *)
(***************************************************************************)
\* os.getcwd()
Cwd == <<"/", "w">>

\* os.path.join(a, *parts)
RECURSIVE PathJoin(_, _)
PathJoin(a, parts) ==
    IF parts = <<>> THEN a
    ELSE LET b == Head(parts)
             ab == IF StartsWith(b, <<Sep>>) THEN b
                   ELSE IF a = <<>> \/ a[Len(a)] = Sep THEN a \o b
                   ELSE a \o <<Sep>> \o b
         IN  PathJoin(ab, Tail(parts))

\* The components normpath keeps: empty ones and "." are dropped, and ".."
\* removes the component before it, unless there is none to remove.
RECURSIVE NormComps(_, _, _)
NormComps(comps, new, rooted) ==
    IF comps = <<>> THEN new
    ELSE LET c == Head(comps)
         IN  IF c = <<>> \/ c = <<".">> THEN NormComps(Tail(comps), new, rooted)
             ELSE IF \/ c # <<".", ".">>
                     \/ (~rooted /\ new = <<>>)
                     \/ (new # <<>> /\ new[Len(new)] = <<".", ".">>)
             THEN NormComps(Tail(comps), Append(new, c), rooted)
             ELSE IF new # <<>>
             THEN NormComps(Tail(comps), SubSeq(new, 1, Len(new) - 1), rooted)
             ELSE NormComps(Tail(comps), new, rooted)

\* os.path.normpath(path): exactly two leading slashes are kept
NormPath(path) ==
    IF path = <<>> THEN <<".">>
    ELSE LET slashes == IF ~StartsWith(path, <<Sep>>) THEN <<>>
                        ELSE IF StartsWith(path, <<Sep, Sep>>)
                                /\ ~StartsWith(path, <<Sep, Sep, Sep>>)
                        THEN <<Sep, Sep>>
                        ELSE <<Sep>>
             joined == slashes \o JoinWith(<<Sep>>,
                                           NormComps(SplitOn(path, Sep), <<>>, slashes # <<>>))
         IN  IF joined = <<>> THEN <<".">> ELSE joined

\* os.path.abspath(path)
AbsPath(path) ==
    NormPath(IF StartsWith(path, <<Sep>>) THEN path ELSE PathJoin(Cwd, <<path>>))

SepPlaceholder == <<"_", "_", "S", "E", "P", "_", "P", "L", "A", "C", "E", "H", "O", "L", "D", "E", "R", "_", "_">>

\* The cleaning that leaves the quotation marks in
CleanKeepQuotes(path) ==
    Replace(Replace(Replace(Replace(path,
        <<Sep>>, SepPlaceholder),
        <<Backslash, Backslash>>, SepPlaceholder),
        <<Backslash>>, SepPlaceholder),
        SepPlaceholder, <<Sep>>)

\* lines 228-237, 339-348 and 374-383: the quotation marks go, and "/", two
\* backslashes and one backslash each become os.sep, by way of a placeholder.
CleanPath(path) ==
    Replace(Replace(Replace(Replace(Replace(path,
        <<Quote>>, <<>>),
        <<Sep>>, SepPlaceholder),
        <<Backslash, Backslash>>, SepPlaceholder),
        <<Backslash>>, SepPlaceholder),
        SepPlaceholder, <<Sep>>)

(***************************************************************************)
(* The MetaClass object: its instance attributes, name -> value.           *)
(***************************************************************************)
nparams == <<"p", "a", "r", "a", "m", "s">>
nlines == <<"l", "i", "n", "e", "s">>
nfilename == <<"f", "i", "l", "e", "n", "a", "m", "e">>
nfolder == <<"f", "o", "l", "d", "e", "r">>
ntopdir == <<"t", "o", "p", "d", "i", "r">>
ninputdir == <<"i", "n", "p", "u", "t", "d", "i", "r">>
noutputdir == <<"o", "u", "t", "p", "u", "t", "d", "i", "r">>
ninputdir_raw == <<"i", "n", "p", "u", "t", "d", "i", "r", "_", "r", "a", "w">>
noutputdir_raw == <<"o", "u", "t", "p", "u", "t", "d", "i", "r", "_", "r", "a", "w">>
n_inputdir_raw == <<"_", "i", "n", "p", "u", "t", "d", "i", "r", "_", "r", "a", "w">>
n_outputdir_raw == <<"_", "o", "u", "t", "p", "u", "t", "d", "i", "r", "_", "r", "a", "w">>
neventlabel == <<"e", "v", "e", "n", "t", "l", "a", "b", "e", "l">>

\* A dict of parameters, and the list readlines returns
ParamDict(map) == [kind |-> "params", map |-> map]
Lines(lines) == [kind |-> "lines", lines |-> lines]
MetaObj(d) == [kind |-> "meta", d |-> d]
TypeError(what) == Error("TypeError", what, <<>>)

\* line 149: the attributes that are no parameters
StateAttributes == {nlines, nparams, nfilename, nfolder}

\* lines 146-157: after the attribute is set, __setattr__ records it in
\* self.params unless it is a state attribute or starts with "_".
Record(d, item, value) ==
    IF item \in StateAttributes THEN [d |-> d, err |-> NoErr]
    ELSE IF item[1] = "_" THEN [d |-> d, err |-> NoErr]
    ELSE IF d[nparams].kind # "params" THEN [d |-> d, err |-> TypeError("params")]
    ELSE [d |-> (nparams :> ParamDict((item :> value) @@ d[nparams].map)) @@ d,
          err |-> NoErr]

\* lines 144-157 for a name that is no property
SetPlain(d, item, value) == Record((item :> value) @@ d, item, value)

\* lines 354-360 and 389-395 (244-255 in read): the directory is assigned
\* as the absolute path, and once more when it lacks the trailing os.sep.
SetDirPath(d, derived, path) ==
    IF SetPlain(d, derived, Str(path)).err # NoErr THEN SetPlain(d, derived, Str(path))
    ELSE IF path[Len(path)] # Sep
    THEN SetPlain(SetPlain(d, derived, Str(path)).d, derived, Str(path \o <<Sep>>))
    ELSE SetPlain(d, derived, Str(path))
SetDir(d, derived, topdir, raw) ==
    IF topdir.kind # "str" THEN [d |-> d, err |-> TypeError("join")]
    ELSE SetDirPath(d, derived, AbsPath(PathJoin(topdir.s, SplitOn(raw, Sep))))

\* lines 353-360 and 388-395: the cleaned string is stored, then the
\* directory is derived from self.topdir.
StoreRaw(d, private, derived, cleaned) ==
    IF ntopdir \notin DOMAIN d
    THEN [d |-> (private :> Str(cleaned)) @@ d, err |-> AttributeError(<<ntopdir>>)]
    ELSE SetDir((private :> Str(cleaned)) @@ d, derived, d[ntopdir], cleaned)

\* lines 332-360 and 367-395: the setters of outputdir_raw and inputdir_raw
RawSetter(d, private, derived, new) ==
    IF new = None THEN [d |-> d, err |-> NoErr]
    ELSE IF new.kind # "str" THEN [d |-> d, err |-> AttributeError(<<<<"r", "e", "p", "l", "a", "c", "e">>>>)]
    ELSE StoreRaw(d, private, derived, CleanPath(new.s))

\* What super().__setattr__ did and raised, then lines 146-157
AfterSetter(r, item, value) == IF r.err # NoErr THEN r ELSE Record(r.d, item, value)

\* __setattr__, lines 132-157: super().__setattr__ runs the setter of a
\* property, and the name and the value given are then recorded.
SetAttr(d, item, value) ==
    IF item = noutputdir_raw
    THEN AfterSetter(RawSetter(d, n_outputdir_raw, noutputdir, value), item, value)
    ELSE IF item = ninputdir_raw
    THEN AfterSetter(RawSetter(d, n_inputdir_raw, ninputdir, value), item, value)
    ELSE SetPlain(d, item, value)

\* The attribute a name reads: a property reads its private attribute.
AttrName(item) ==
    IF item = noutputdir_raw THEN n_outputdir_raw
    ELSE IF item = ninputdir_raw THEN n_inputdir_raw
    ELSE item
HasAttr(d, item) == AttrName(item) \in DOMAIN d
GetAttr(d, item) == d[AttrName(item)]

\* setattr(self, name, value) for a sequence of <<name, value>>, in order,
\* up to the first that raises
RECURSIVE SetAll(_, _)
SetAll(d, items) ==
    IF items = <<>> THEN [d |-> d, err |-> NoErr]
    ELSE IF SetAttr(d, items[1][1], items[1][2]).err # NoErr
    THEN SetAttr(d, items[1][1], items[1][2])
    ELSE SetAll(SetAttr(d, items[1][1], items[1][2]).d, Tail(items))

\* dict.update: the map with the items of a sequence of <<name, value>>
RECURSIVE Updated(_, _)
Updated(map, items) ==
    IF items = <<>> THEN map
    ELSE Updated((items[1][1] :> items[1][2]) @@ map, Tail(items))

(***************************************************************************)
(* read, lines 159-255                                                     *)
(***************************************************************************)
\* lines 188-190: the line without its comment and its outer whitespace
CutComment(line) ==
    IF "#" \in Range(line)
    THEN SubSeq(line, 1, (CHOOSE j \in 1..Len(line) :
                              line[j] = "#" /\ \A h \in 1..(j - 1) : line[h] # "#") - 1)
    ELSE line
CleanLine(line) == Strip(CutComment(line))

\* lines 184-194
CleanLines(lines) == SelectSeq([i \in 1..Len(lines) |-> CleanLine(lines[i])],
                               LAMBDA l : Len(l) > 0)

\* lines 198-209: the name and the value of a clean line.  The name holds no
\* quotation mark and no backslash, so that both modes of shlex give it alike.
LineName(line) == ShlexSplit(line)[1]
LineValue(line) == EvalOrKeep(JoinWith(<<" ">>, Tail(ShlexSplit(line))))

\* lines 196-209: self.params after the loop over the clean lines
RECURSIVE ReadParams(_, _)
ReadParams(map, clean) ==
    IF clean = <<>> THEN map
    ELSE ReadParams((LineName(clean[1]) :> LineValue(clean[1])) @@ map, Tail(clean))

\* lines 212-213: the items of self.params, in the order of the file
ParamItems(map, clean) == [i \in 1..Len(clean) |-> <<LineName(clean[i]), map[LineName(clean[i])]>>]

\* lines 178-182
ReadFile(d, folder, file, dsk) ==
    (nlines :> Lines(dsk[PathJoin(folder, <<file>>)].lines))
        @@ (nfolder :> Str(folder)) @@ (nfilename :> Str(file)) @@ d

\* lines 184-213
ReadLoop(d, clean) ==
    SetAll((nparams :> ParamDict(ReadParams(d[nparams].map, clean))) @@ d,
           ParamItems(ReadParams(d[nparams].map, clean), clean))

\* lines 225-238: the cleaning of one path attribute
CleanAttr(d, name) ==
    IF d[name].kind # "str" THEN [d |-> d, err |-> AttributeError(<<<<"r", "e", "p", "l", "a", "c", "e">>>>)]
    ELSE SetPlain(d, name, Str(CleanPath(d[name].s)))

\* lines 244-255
ReadDirs(d) ==
    IF SetDir(d, ninputdir, d[ntopdir], d[n_inputdir_raw].s).err # NoErr
    THEN SetDir(d, ninputdir, d[ntopdir], d[n_inputdir_raw].s)
    ELSE SetDir(SetDir(d, ninputdir, d[ntopdir], d[n_inputdir_raw].s).d,
                noutputdir, d[ntopdir], d[n_outputdir_raw].s)

\* lines 225-255
ReadClean(d) ==
    IF \E n \in {ntopdir, n_inputdir_raw, n_outputdir_raw} : d[n].kind # "str"
    THEN [d |-> d, err |-> AttributeError(<<<<"r", "e", "p", "l", "a", "c", "e">>>>)]
    ELSE ReadDirs(CleanAttr(CleanAttr(CleanAttr(d, ntopdir).d, n_inputdir_raw).d,
                            n_outputdir_raw).d)

\* lines 221-222
ReadRaw(d) ==
    IF ninputdir \notin DOMAIN d THEN [d |-> d, err |-> AttributeError(<<ninputdir>>)]
    ELSE IF noutputdir \notin DOMAIN d
    THEN [d |-> (n_inputdir_raw :> d[ninputdir]) @@ d, err |-> AttributeError(<<noutputdir>>)]
    ELSE ReadClean((n_outputdir_raw :> d[noutputdir]) @@ (n_inputdir_raw :> d[ninputdir]) @@ d)

\* lines 217-218
ReadTopdir(d) ==
    IF ntopdir \notin DOMAIN d THEN [d |-> d, err |-> AttributeError(<<ntopdir>>)]
    ELSE IF d[ntopdir].kind # "str" THEN [d |-> d, err |-> AttributeError(<<<<"r", "e", "p", "l", "a", "c", "e">>>>)]
    ELSE ReadRaw(SetPlain(d, ntopdir,
                          Str(Replace(Replace(d[ntopdir].s, <<"_", "_", "c", "w", "d", "_", "_">>, Cwd), <<"_", "_", "C", "W", "D", "_", "_">>, Cwd))).d)

AfterLoop(r) == IF r.err # NoErr THEN r ELSE ReadTopdir(r.d)

\* read(folder, file)
Read(d, folder, file, dsk) == AfterLoop(ReadLoop(ReadFile(d, folder, file, dsk), CleanLines(dsk[PathJoin(folder, <<file>>)].lines)))

(***************************************************************************)
(* __init__, lines 55-76.  An absent folder or file is None, and kwargs is *)
(* a sequence of <<name, value>> in the order given.                       *)
(***************************************************************************)
\* lines 66-76
InitKwargs(d, kwargs) ==
    IF SetAll((nparams :> ParamDict(Updated(d[nparams].map, kwargs))) @@ d, kwargs).err # NoErr
    THEN SetAll((nparams :> ParamDict(Updated(d[nparams].map, kwargs))) @@ d, kwargs)
    ELSE [d |-> (n_inputdir_raw :> None) @@ (n_outputdir_raw :> None)
                   @@ SetAll((nparams :> ParamDict(Updated(d[nparams].map, kwargs))) @@ d,
                             kwargs).d,
          err |-> NoErr]

AfterRead(r, kwargs) == IF r.err # NoErr THEN r ELSE InitKwargs(r.d, kwargs)

\* lines 58-64
InitFile(folder, file, kwargs, dsk) ==
    IF file = None THEN InitKwargs((nparams :> ParamDict(<<>>)), kwargs)
    ELSE IF PathJoin(folder, <<file.s>>) \in DOMAIN dsk
    THEN AfterRead(Read((nparams :> ParamDict(<<>>)), folder, file.s, dsk), kwargs)
    ELSE [d |-> <<>>, err |-> Error("ValueError", "file", <<PathJoin(folder, <<file.s>>)>>)]

\* MetaClass(folder, file, **kwargs)
MetaInit(folder, file, kwargs, dsk) ==
    InitFile(IF folder = None THEN <<".", Sep>> ELSE folder.s, file, kwargs, dsk)

(***************************************************************************)
(* copy_ecf, lines 314-325                                                 *)
(***************************************************************************)
File(lines) == [kind |-> "file", lines |-> lines]

\* lines 322-323
InputdirLine(segs, raw) ==
    segs[1] \o <<"\t", "\t">> \o raw \o <<"\t">>
        \o JoinWith(<<" ">>, SubSeq(segs, 3, Len(segs))) \o <<"\n">>

\* lines 316-325: the lines written, up to the one that raises
RECURSIVE CopyLines(_, _, _)
CopyLines(lines, raw, out) ==
    IF lines = <<>> THEN [out |-> out, err |-> NoErr]
    ELSE IF Len(Strip(lines[1])) = 0 \/ Strip(lines[1])[1] = "#"
    THEN CopyLines(Tail(lines), raw, Append(out, lines[1]))
    ELSE IF SplitWords(Strip(lines[1]))[1] # ninputdir
    THEN CopyLines(Tail(lines), raw, Append(out, lines[1]))
    ELSE IF raw.kind # "str" THEN [out |-> out, err |-> TypeError("concatenate")]
    ELSE CopyLines(Tail(lines), raw,
                   Append(out, InputdirLine(SplitWords(Strip(lines[1])), raw.s)))

\* line 314
NewEcfName(d) == PathJoin(d[noutputdir].s, <<d[nfilename].s>>)

\* lines 316-325 once the new file is open
CopyInto(d, dsk, name) ==
    IF nlines \notin DOMAIN d
    THEN [disk |-> (name :> File(<<>>)) @@ dsk, err |-> AttributeError(<<nlines>>)]
    ELSE [disk |-> (name :> File(CopyLines(d[nlines].lines, d[n_inputdir_raw], <<>>).out))
                      @@ dsk,
          err |-> CopyLines(d[nlines].lines, d[n_inputdir_raw], <<>>).err]

\* copy_ecf(): the disk it leaves and the exception it raises
CopyOf(d, dsk) ==
    IF noutputdir \notin DOMAIN d THEN [disk |-> dsk, err |-> AttributeError(<<noutputdir>>)]
    ELSE IF nfilename \notin DOMAIN d
    THEN [disk |-> dsk, err |-> AttributeError(<<nfilename>>)]
    ELSE CopyInto(d, dsk, NewEcfName(d))

(***************************************************************************)
(* The control files on disk, the calls and the values assigned.           *)
(***************************************************************************)
EcfFolder == <<"/", "e", "/">>
EcfA ==
    << <<"#", " ", "c", "\n">>, <<"\n">>, <<"t", "o", "p", "d", "i", "r", " ", "/", "t", "\n">>, <<"i", "n", "p", "u", "t", "d", "i", "r", " ", "i", "n", " ", "#", " ", "x", "\n">>, <<"o", "u", "t", "p", "u", "t", "d", "i", "r", " ", "o", "u", "t", "\n">>,
       <<"n", " ", "5", "\n">> >>
EcfB ==
    << <<"t", "o", "p", "d", "i", "r", " ", "/", "t", "/", "\n">>, <<"i", "n", "p", "u", "t", "d", "i", "r", "\t", "\"", "m", "y", " ", "i", "n", "\"", "\t", "#", " ", "x", "\n">>, <<"o", "u", "t", "p", "u", "t", "d", "i", "r", " ", "o", "\\", "p", "\n">> >>
EcfDisk ==
    (PathJoin(EcfFolder, <<<<"a">>>>) :> File(EcfA)) @@ (PathJoin(EcfFolder, <<<<"b">>>>) :> File(EcfB))

\* MetaClass(), MetaClass(**kwargs) and MetaClass(folder, file), the file z
\* being absent
KwargSets ==
    { <<>>,
      << <<neventlabel, Str(<<"m">>)>> >>,
      << <<ntopdir, Str(<<"/", "t">>)>> >>,
      << <<noutputdir_raw, Str(<<"o">>)>> >>,
      << <<ntopdir, Str(<<"/", "t">>)>>, <<noutputdir_raw, Str(<<"o">>)>> >>,
      << <<nparams, ParamDict(<<>>)>> >> }
Calls ==
    {[folder |-> None, file |-> None, kwargs |-> k] : k \in KwargSets}
    \cup {[folder |-> Str(EcfFolder), file |-> Str(f), kwargs |-> <<>>] :
            f \in {<<"a">>, <<"b">>, <<"z">>}}

OutRaws ==
    {Str(<<"o">>), Str(<<"o", "/">>), Str(<<"a", "/", "b">>), Str(<<"/", "o">>), Str(<<"a", "\\", "b">>), Str(<<"a", "\\", "\\", "b">>),
     Str(<<"\"", "o", "\"">>), Str(<<"a", "/", ".", ".", "/", "b">>), Str(<<"\"", "a", " ", "b", "\"", "/", "c">>)}
InRaws == {Str(<<"i">>), Str(<<"\"", "m", "y", " ", "i", "n", "\"">>)}
Topdirs == {Str(<<"/", "t">>), Str(<<"t", "/", "u">>)}
Labels == {Str(<<"m">>)}

(***************************************************************************)
(* The operations on a MetaClass                                           *)
(***************************************************************************)
modelvars == <<paramtitles, parameters, limb_dark, nchan, pc, err, attrs, star, planet,
               sys, fit_dict, fit, fiterr, sysout, time, flux, lc_unc, obs, evalout>>

MetaClass(folder, file, kwargs) ==
    /\ meta = NoObj
    /\ meta' = IF MetaInit(folder, file, kwargs, disk).err # NoErr THEN NoObj
               ELSE MetaObj(MetaInit(folder, file, kwargs, disk).d)
    /\ metaerr' = MetaInit(folder, file, kwargs, disk).err
    /\ UNCHANGED disk
    /\ UNCHANGED modelvars

\* meta.item = value
SetAttribute(item, value) ==
    /\ meta # NoObj
    /\ meta' = MetaObj(SetAttr(meta.d, item, value).d)
    /\ metaerr' = SetAttr(meta.d, item, value).err
    /\ UNCHANGED disk
    /\ UNCHANGED modelvars

\* meta.copy_ecf(), once on an object
CopyEcf ==
    /\ meta # NoObj
    /\ DOMAIN disk = DOMAIN EcfDisk
    /\ disk' = CopyOf(meta.d, disk).disk
    /\ metaerr' = CopyOf(meta.d, disk).err
    /\ UNCHANGED meta
    /\ UNCHANGED modelvars


InitMeta ==
    /\ paramtitles = <<>>
    /\ parameters = <<>>
    /\ limb_dark = "uniform"
    /\ nchan = 1
    /\ Unbuilt
    /\ meta = NoObj
    /\ metaerr = NoErr
    /\ disk = EcfDisk

\* A test builds an object without a file, names its event and its topdir
\* and assigns outputdir_raw; a stage reads its control file, assigns
\* inputdir_raw and copies the file.
FromFile == meta # NoObj /\ nfilename \in DOMAIN meta.d

NextMeta ==
    \/ \E c \in Calls : MetaClass(c.folder, c.file, c.kwargs)
    \/ \E v \in OutRaws \cup {None} : ~FromFile /\ SetAttribute(noutputdir_raw, v)
    \/ \E v \in InRaws \cup {None} : FromFile /\ SetAttribute(ninputdir_raw, v)
    \/ \E v \in Topdirs : ~FromFile /\ SetAttribute(ntopdir, v)
    \/ \E v \in Labels : SetAttribute(neventlabel, v)
    \/ CopyEcf

SpecMeta == InitMeta /\ [][NextMeta]_vars

(***************************************************************************)
(* Properties of the build.                                                *)
(***************************************************************************)
PastParams == pc \in {"star", "limb", "planet", "system", "built"}
NothingBuilt == attrs = <<>> /\ star = NoObj /\ planet = NoObj /\ sys = NoObj
LacksRequired == \E n \in {nMs, nMp, nRs} : n \notin Range(paramtitles)
RequiredError == pc = "failed" /\ err.type = "AssertionError"

\* C1: when paramtitles lacks any of Ms, Mp, Rs, __init__ gets no further than
\* the required-parameter check, the error it raises there names exactly the
\* required names that are absent, and no parameter variable, star, planet or
\* system exists; when all three are present the check never raises.
C1_RequiredCheckedFirst ==
    /\ LacksRequired =>
          /\ pc \in {"new", "failed"}
          /\ NothingBuilt
          /\ pc = "failed" =>
                /\ err.type = "AssertionError"
                /\ Range(err.names) = {n \in {nMs, nMp, nRs} : n \notin Range(paramtitles)}
                /\ Len(err.names) = Cardinality(Range(err.names))
    /\ ~LacksRequired => ~RequiredError

\* The check has raised for a list that lacks two required names.
C1_Witness == RequiredError /\ Len(err.names) = 2 /\ NothingBuilt

LawError(e) == e.type = "ValueError" /\ e.what = "limb_dark"
FitAssigned == pc = "built" /\ <<fit_dict, fit, fiterr>>' # <<fit_dict, fit, fiterr>>

\* C2: the limb darkening step of __init__ and every fit_dict assignment raise
\* the limb darkening error when the law is none of uniform, linear, quadratic,
\* kipping2013, and then no system is produced (self.sys stays unset, self.fit
\* keeps its old value); under each of the four laws neither raises that error.
C2_UnknownLawIsFatal ==
    [][ /\ pc = "limb" =>
              IF limb_dark \notin {"uniform", "linear", "quadratic", "kipping2013"}
              THEN pc' = "failed" /\ LawError(err') /\ sys' = NoObj
              ELSE ~LawError(err')
        /\ FitAssigned =>
              IF limb_dark \notin {"uniform", "linear", "quadratic", "kipping2013"}
              THEN LawError(fiterr') /\ fit' = fit
              ELSE ~LawError(fiterr') ]_vars

\* A fit_dict assignment has raised the limb darkening error on a built model
\* that holds a concrete model from an earlier assignment.
C2_Witness ==
    /\ pc = "built"
    /\ limb_dark \notin Laws
    /\ fit_dict # NoObj
    /\ LawError(fiterr)
    /\ fit # NoObj

UnknownPrior(n) ==
    /\ parameters[n].ptype \in {"free", "shared"}
    /\ parameters[n].prior \notin {"U", "N", "LU"}

\* C3: a build never completes with a free or shared parameter whose prior
\* kind is none of U, N, LU.
C3_UnknownPriorFails ==
    pc = "built" => \A n \in Range(paramtitles) : ~UnknownPrior(n)

\* C4: the variable of a free or shared parameter is a uniform on
\* [priorpar1, priorpar2] for U, a normal(priorpar1, priorpar2) for N, bounded
\* below at 0 for rp, per, ecc, scatter_mult, scatter_ppm, c0, bounded above
\* at 90 for inc and unbounded for any other name, and the exponential of a
\* uniform on [priorpar1, priorpar2] for LU, whatever the role and nchan.
C4_PriorTable ==
    PastParams =>
        \A n \in Range(paramtitles) :
            LET p == parameters[n]
            IN  (p.ptype \in {"free", "shared"} /\ p.prior \in {"U", "N", "LU"}) =>
                    /\ n \in DOMAIN attrs
                    /\ attrs[n].kind = "rv"
                    /\ attrs[n].name = n
                    /\ attrs[n].par1 = p.priorpar1
                    /\ attrs[n].par2 = p.priorpar2
                    /\ attrs[n].family = (IF p.prior = "N" THEN "Normal" ELSE "Uniform")
                    /\ attrs[n].exp = (p.prior = "LU")
                    /\ attrs[n].haslower =
                          (p.prior = "N" /\ n \in {nrp, nper, necc, nscatter_mult,
                                                   nscatter_ppm, nc0})
                    /\ attrs[n].haslower => attrs[n].lower = 0
                    /\ attrs[n].hasupper = (p.prior = "N" /\ n = ninc)
                    /\ attrs[n].hasupper => attrs[n].upper = 90

\* A model is built whose parameters all have a normal prior, c0 and
\* scatter_mult among them.
C4_Witness ==
    /\ pc = "built"
    /\ {nc0, nscatter_mult} \subseteq Range(paramtitles)
    /\ \A n \in Range(paramtitles) :
          parameters[n].prior = "N" /\ parameters[n].ptype \in {"free", "shared"}
    /\ attrs[nc0].haslower
    /\ attrs[ninc].hasupper
    /\ ~attrs[nu1].haslower

\* C5: after a successful build a fixed parameter is the constant of its table
\* value, an independent parameter is no attribute of the model, a free or
\* shared parameter is one sampled variable, and no parameter has another role.
C5_RolesBound ==
    pc = "built" =>
        \A n \in Range(paramtitles) :
            LET p == parameters[n]
            IN  /\ p.ptype \in {"independent", "fixed", "free", "shared"}
                /\ p.ptype = "fixed" => n \in DOMAIN attrs /\ attrs[n] = Constant(p.value)
                /\ p.ptype = "independent" => n \notin DOMAIN attrs
                /\ p.ptype \in {"free", "shared"} =>
                      n \in DOMAIN attrs /\ attrs[n].kind = "rv"

\* C6: the variable of a free parameter holds one value when nchan is 1 and
\* nchan values otherwise, and the variable of a shared parameter one value.
C6_FreeShape ==
    PastParams =>
        \A n \in Range(paramtitles) :
            (n \in DOMAIN attrs /\ attrs[n].kind = "rv") =>
                NValues(attrs[n].shape) =
                    (IF parameters[n].ptype = "free" /\ nchan > 1 THEN nchan ELSE 1)

(***************************************************************************)
(* Properties of the coefficient decoding.  They are stated of the steps   *)
(* that change sysout, which are the syseval calls.  The grammar of the    *)
(* names is written out here as the specification states it: a letter,     *)
(* digits, and optionally an underscore and digits.                        *)
(***************************************************************************)
SysevalStep == sysout' # sysout
Decoded == SysevalStep /\ sysout'.err = NoErr

\* The names a call decodes, and whether the i-th has a value and which.
DecNames == IF sysout'.eval THEN [i \in 1..Len(fit_dict.items) |-> fit_dict.items[i][1]]
            ELSE paramtitles
DecHas(i) == sysout'.eval \/ Has(attrs, paramtitles[i])
DecValue(i) == IF sysout'.eval THEN fit_dict.items[i][2] ELSE attrs[paramtitles[i]]

\* <letter><digits>
Plain(k) == Len(k) >= 2 /\ IsDigit(DropFirst(k))
\* <letter><digits>_<digits>: the places of the underscore
Underscore(k) ==
    {u \in 2..Len(k) : /\ k[u] = "_"
                       /\ IsDigit(SubSeq(k, 2, u - 1))
                       /\ IsDigit(SubSeq(k, u + 1, Len(k)))}
Suffixed(k) == Underscore(k) # {}
Grammatical(k) == Len(k) >= 1 /\ LowerChar(k[1]) \in {"c", "r"} /\ (Plain(k) \/ Suffixed(k))

\* The cell the grammar gives a name in table tbl with n channels.
GrammarCell(k, n, tbl) ==
    IF Plain(k)
    THEN [table |-> tbl, chan |-> 0, term |-> ToInt(DropFirst(k))]
    ELSE IF Suffixed(k) /\ n > 1
    THEN LET u == CHOOSE v \in Underscore(k) : TRUE
         IN  [table |-> tbl, chan |-> ToInt(SubSeq(k, u + 1, Len(k))),
              term |-> ToInt(SubSeq(k, 2, u - 1))]
    ELSE NoCell

CellValue(out, cell) ==
    IF cell.table = "poly" THEN out.poly[cell.chan][cell.term]
    ELSE out.ramp[cell.chan][cell.term]

\* No name after the i-th is written to the cell.
LastWriter(i, cell) ==
    \A j \in (i + 1)..Len(DecNames) : CellOf(DecNames[j], nchan) # cell

\* The i-th name's value is in the cell, unless a later name was written there.
WritesOwn(i, cell) ==
    LastWriter(i, cell) =>
        /\ InTable(cell, nchan)
        /\ DecHas(i)
        /\ CellValue(sysout', cell) = DecValue(i)

\* C7: after a decoding that completes, in either path, a name c<d> has its
\* value at degree d of channel 0 and, when nchan > 1, a name c<d>_<ch> has
\* its value at degree d of channel ch (the last such name of the list wins);
\* with nchan = 1 only names c<d> or C<d> are written; and every cell no name
\* is written to holds 0.
C7_PolyDecoding ==
    [][ Decoded =>
          /\ \A i \in 1..Len(DecNames) :
                LET g == GrammarCell(DecNames[i], nchan, "poly")
                IN  (DecNames[i][1] = "c" /\ g # NoCell) => WritesOwn(i, g)
          /\ nchan = 1 =>
                \A t \in 0..(PolyTerms - 1) :
                    sysout'.poly[0][t] # Float(0) =>
                        \E i \in 1..Len(DecNames) :
                            /\ LowerChar(DecNames[i][1]) = "c"
                            /\ Plain(DecNames[i])
                            /\ ToInt(DropFirst(DecNames[i])) = t
          /\ \A c \in 0..(nchan - 1), t \in 0..(PolyTerms - 1) :
                (\A i \in 1..Len(DecNames) :
                    CellOf(DecNames[i], nchan) # [table |-> "poly", chan |-> c, term |-> t])
                => sysout'.poly[c][t] = Float(0) ]_vars

\* A decoding of c0 and c1_1 with two channels has completed: the table of
\* the differentiable path holds the model's variables at degree 0 of
\* channel 0 and degree 1 of channel 1, the table of the concrete path the
\* fit point's values, and the two other cells of those rows hold 0.
C7_Witness ==
    /\ sysout # NoObj
    /\ sysout.err = NoErr
    /\ nchan = 2
    /\ paramtitles = CoreSeq \o << <<"c", "0">>, <<"c", "1", "_", "1">> >>
    /\ \/ /\ ~sysout.eval
          /\ sysout.poly[0][0] = attrs[<<"c", "0">>]
          /\ sysout.poly[1][1] = attrs[<<"c", "1", "_", "1">>]
       \/ /\ sysout.eval
          /\ sysout.poly[0][0].value > 100
          /\ sysout.poly[1][1].value > 100
    /\ sysout.poly[0][1] = Float(0)
    /\ sysout.poly[1][0] = Float(0)

\* C8: after a decoding that completes, in either path, a name r<k> with k in
\* 0..5 has its value at ramp term k of channel 0 and, when nchan > 1, a name
\* r<k>_<ch> has its value at ramp term k of channel ch.
C8_RampDecoding ==
    [][ Decoded =>
          \A i \in 1..Len(DecNames) :
              LET g == GrammarCell(DecNames[i], nchan, "ramp")
              IN  (DecNames[i][1] = "r" /\ g # NoCell /\ g.term < RampTerms /\ g.chan < nchan)
                      => WritesOwn(i, g) ]_vars

\* C9: on a model that is set up no decoding raises, and after a decoding
\* every cell that holds a coefficient is the cell of a name of the list that
\* matches the grammar.
C9_DecodingNeverRaises ==
    [][ (SysevalStep /\ time # NoObj) =>
          /\ sysout'.err = NoErr
          /\ \A c \in 0..(nchan - 1) :
                /\ \A t \in 0..(PolyTerms - 1) :
                      sysout'.poly[c][t] # Float(0) =>
                          \E i \in 1..Len(DecNames) :
                              /\ Grammatical(DecNames[i])
                              /\ CellOf(DecNames[i], nchan)
                                    = [table |-> "poly", chan |-> c, term |-> t]
                /\ \A t \in 0..(RampTerms - 1) :
                      sysout'.ramp[c][t] # Float(0) =>
                          \E i \in 1..Len(DecNames) :
                              /\ Grammatical(DecNames[i])
                              /\ CellOf(DecNames[i], nchan)
                                    = [table |-> "ramp", chan |-> c, term |-> t] ]_vars

\* C10: on a model that is set up, in either path a name that starts with C
\* or R is decoded as the name with that letter in lower case would be: the
\* call does not fail to read its value, and the cell of the lower-case name
\* holds the value of the upper-case name.
C10_LeadingLetterCase ==
    [][ (SysevalStep /\ time # NoObj) =>
          \A i \in 1..Len(DecNames) :
              LET k == DecNames[i]
                  g == GrammarCell(k, nchan, IF k[1] = "C" THEN "poly" ELSE "ramp")
              IN  (k[1] \in {"C", "R"} /\ g # NoCell /\ InTable(g, nchan)) =>
                      /\ sysout'.err.type # "AttributeError"
                      /\ sysout'.err = NoErr => WritesOwn(i, g) ]_vars

(***************************************************************************)
(* Properties of the systematics flux.                                     *)
(***************************************************************************)
\* The point that gives every sampled variable of the model its table value.
TablePoint == EvalPoint(paramtitles, attrs, parameters)

\* The number a cell of the table of the last call holds: the fit point's
\* value in the concrete path, the value of the variable at the table point
\* in the differentiable path.
CellNum(cell) == Num(cell, TablePoint)

\* The value of a sample of the flux of the last call.
SampleValue(out, i) ==
    IF out.eval THEN out.flux[i].sum ELSE AtPoint(out.flux[i], TablePoint)

\* The sum of v[d] * x^d over the degrees 0..d.
RECURSIVE Polynomial(_, _, _)
Polynomial(v, d, x) ==
    IF d < 0 THEN 0 ELSE v[d] * Pow(x, d) + Polynomial(v, d - 1, x)

\* f + c*exp(x), for a sum f of powers of e
AddTerm(f, x, c) ==
    LET old == IF x \in DOMAIN f THEN f[x] ELSE 0
    IN  [y \in (DOMAIN f \cup {x}) \ (IF old + c = 0 THEN {x} ELSE {}) |->
            IF y = x THEN old + c ELSE f[y]]

\* The constant 1
One == AddTerm(<<>>, 0, 1)

\* r0*exp(-r1*dt + r2) + r3*exp(-r4*dt + r5) + 1
RampTrend(v, dt) ==
    AddTerm(AddTerm(One, (0 - v[4]) * dt + v[5], v[3]), (0 - v[1]) * dt + v[2], v[0])

\* The systematics parameters of the model and whether all are 0.
Coefficients == {n \in Range(paramtitles) : Len(n) >= 1 /\ LowerChar(n[1]) \in {"c", "r"}
                                            /\ Grammatical(n)}
AllZero == \A n \in Coefficients : parameters[n].value = 0

\* C11: with more than one channel, after a decoding that completes, in
\* either path, a shared coefficient c<d> without a channel suffix has its
\* value at degree d of every channel.
C11_SharedEveryChannel ==
    [][ (Decoded /\ nchan > 1) =>
          \A i \in 1..Len(DecNames) :
              LET k == DecNames[i]
              IN  (k[1] = "c" /\ Plain(k) /\ ToInt(DropFirst(k)) < PolyTerms
                   /\ parameters[k].ptype = "shared")
                      => \A ch \in 0..(nchan - 1) :
                            sysout'.poly[ch][ToInt(DropFirst(k))] = DecValue(i) ]_vars

\* C12: in the concrete path every sample of the systematics flux is the sum
\* over the degrees d of the table of (coefficient of degree d) *
\* (t - mean(t))^d, times the ramp: a coefficient multiplies the power of its
\* own degree whatever columns of the table are zero.
C12_TrimKeepsPowers ==
    [][ (Decoded /\ sysout'.eval) =>
          \A i \in 1..Len(sysout'.flux) :
              LET c == ChanOf(i, Len(time.values))
                  t == time.values[IndexOf(i, Len(time.values))]
                  v == [d \in 0..(PolyTerms - 1) |-> sysout'.poly[c][d].value]
                  r == [k \in 0..(RampTerms - 1) |-> sysout'.ramp[c][k].value]
              IN  sysout'.flux[i].sum =
                      Scale(Polynomial(v, PolyTerms - 1, t - Mean(time.values)),
                            RampTrend(r, t - time.values[1])) ]_vars

\* C13: when every systematics parameter of the model is 0, or the model has
\* none, every sample of the systematics flux is 1, in either path.
C13_ZeroCoefficientsGiveOne ==
    [][ (Decoded /\ AllZero) =>
          \A i \in 1..Len(sysout'.flux) : SampleValue(sysout', i) = One ]_vars

\* C14: on a model that is set up and has a fit point, when both paths
\* complete, the concrete systematics flux and the differentiable
\* systematics flux evaluated at the fit point have the same length and the
\* same value at every index.
C14_PathsAgree ==
    (pc = "built" /\ time # NoObj /\ fit_dict # NoObj) =>
        LET conc == SysevalOf(TRUE, time, attrs, fit_dict, paramtitles, nchan)
            lazy == SysevalOf(FALSE, time, attrs, fit_dict, paramtitles, nchan)
        IN  (conc.err = NoErr /\ lazy.err = NoErr) =>
                /\ Len(conc.flux) = Len(lazy.flux)
                /\ \A i \in 1..Len(conc.flux) :
                      conc.flux[i].sum = AtPoint(lazy.flux[i], fit_dict.items)

(***************************************************************************)
(* Properties of the two builds.                                           *)
(***************************************************************************)
\* A value of the concrete build is the value of the differentiable build at
\* a point: a constant is its number, a sampled variable the point's value
\* of its name, and an expression the same expression of such values.
RECURSIVE SameValue(_, _, _)
SameValue(iv, fv, pt) ==
    CASE iv.kind = "constant" -> fv = Float(iv.value)
      [] iv.kind = "rv" -> iv.name \in Keys(pt) /\ fv = Lookup(pt, iv.name)
      [] iv.kind = "float" -> fv = iv
      [] iv.kind = "default" -> fv = iv
      [] iv.kind = "deterministic" ->
            /\ fv.kind = "deterministic"
            /\ fv.name = iv.name
            /\ SameValue(iv.expr, fv.expr, pt)
      [] iv.kind = "sqrt" -> fv.kind = "sqrt" /\ SameValue(iv.x, fv.x, pt)
      [] iv.kind = "Mjup_to_Msun" -> fv.kind = "Mjup_to_Msun" /\ SameValue(iv.x, fv.x, pt)
      [] iv.kind \in {"product", "difference"} ->
            /\ fv.kind = iv.kind
            /\ SameValue(iv.x, fv.x, pt)
            /\ SameValue(iv.y, fv.y, pt)

\* The concrete system f is configured as the differentiable one.
SameSystem(st, pl, f, pt) ==
    /\ f.star.udeg = st.udeg
    /\ \A j \in 1..2 : SameValue(st.u[j], f.star.u[j], pt)
    /\ f.planet.ydeg = pl.ydeg
    /\ DOMAIN f.planet.y = DOMAIN pl.y
    /\ \A lm \in DOMAIN pl.y : SameValue(pl.y[lm], f.planet.y[lm], pt)
    /\ SameValue(pl.amp, f.planet.amp, pt)
    /\ SameValue(pl.m, f.planet.m, pt)
    /\ SameValue(pl.r, f.planet.r, pt)
    /\ SameValue(pl.porb, f.planet.porb, pt)
    /\ SameValue(pl.prot, f.planet.prot, pt)
    /\ SameValue(pl.inc, f.planet.inc, pt)
    /\ SameValue(pl.ecc, f.planet.ecc, pt)
    /\ SameValue(pl.w, f.planet.w, pt)
    /\ f.planet.theta0 = Float(180) /\ pl.theta0 = Float(180)
    /\ f.planet.tref = Float(0) /\ pl.tref = Float(0)

\* An assignment of fit_dict on a built model whose law is one __init__
\* accepts, of a point that holds every sampled variable of the model.
FitStep ==
    /\ pc = "built"
    /\ fit_dict' # fit_dict
    /\ limb_dark \in Laws
    /\ Range(Fitted(paramtitles, attrs)) \subseteq Keys(fit_dict'.items)

\* C15: on a model __init__ has built, assigning a fit point that holds a
\* value for every sampled variable succeeds, and the concrete system has the
\* limb darkening, the harmonic degree and terms, the amplitude (fp, or 0
\* without fp), the mass, the radius, the periods, inc, ecc, w, theta0 and
\* tref of the differentiable system, at the values of the point.
C15_BuildsAgree ==
    [][ FitStep =>
          /\ fiterr' = NoErr
          /\ SameSystem(star, planet, fit', fit_dict'.items) ]_vars

(***************************************************************************)
(* Properties of eval and setup.                                           *)
(***************************************************************************)
\* A call of eval has just returned or raised.
EvalStep == evalout' # evalout

\* What physeval and syseval return in the call of eval that has just ended
EvalPhys == PhysevalOf(evalout'.eval, time, attrs, sys, fit)
EvalSys == SysevalOf(evalout'.eval, time, attrs, fit_dict, paramtitles, nchan)

\* C16: when physeval and syseval return, eval returns nchan*N samples, and
\* the sample at position c*N + k is the astrophysical flux at time k times
\* the systematics flux of channel c at time k.
C16_EvalFlatProduct ==
    [][ (EvalStep /\ EvalPhys.err = NoErr /\ EvalSys.err = NoErr) =>
          /\ evalout'.err = NoErr
          /\ Len(evalout'.flux) = nchan * Len(time.values)
          /\ \A i \in 1..(nchan * Len(time.values)) :
                evalout'.flux[i] =
                    Times(EvalPhys.flux[IndexOf(i, Len(time.values))], EvalSys.flux[i]) ]_vars

\* A model parameter: a name of paramtitles that is not independent
IsModelParameter(name) ==
    name \in Range(paramtitles) /\ parameters[name].ptype # "independent"

\* The noise scale sd at the k-th sample, for the table values of the
\* parameters
NoiseAt(sd, k) ==
    CASE sd.kind = "scaled" -> Num(sd.mult, TablePoint) * sd.unc.values[k]
      [] sd.kind = "array" -> sd.values[k]
      [] OTHER -> Num(sd, TablePoint)

\* The noise scale the claim describes, at the k-th sample of uncertainties unc
NoiseExpected(unc, k) ==
    IF IsModelParameter(nscatter_mult) THEN parameters[nscatter_mult].value * unc[k]
    ELSE IF IsModelParameter(nscatter_ppm) THEN parameters[nscatter_ppm].value
    ELSE unc[k]

SetupStep == time = NoObj /\ time' # NoObj

\* C17: setup stores as scatter_ppm, and gives the likelihood as sd, the
\* product scatter_mult * lc_unc when scatter_mult is a model parameter,
\* otherwise the parameter scatter_ppm when that is a model parameter,
\* otherwise lc_unc itself; at every sample its value is the multiplier times
\* the uncertainty, the value of scatter_ppm, or the uncertainty.
C17_NoiseScale ==
    [][ SetupStep =>
          /\ attrs'[nscatter_ppm] =
                IF IsModelParameter(nscatter_mult)
                THEN ScatterPpm(attrs[nscatter_mult], lc_unc')
                ELSE IF IsModelParameter(nscatter_ppm) THEN attrs[nscatter_ppm]
                ELSE lc_unc'
          /\ \A k \in 1..Len(lc_unc'.values) :
                NoiseAt(attrs'[nscatter_ppm], k) = NoiseExpected(lc_unc'.values, k)
          /\ obs'.kind = "Normal" => obs'.sd = attrs'[nscatter_ppm] ]_vars

\* setup has run with scatter_mult = 2: the likelihood's noise scale at the
\* second sample is twice the uncertainty 2.
C17_Witness ==
    /\ obs # NoObj
    /\ obs.kind = "Normal"
    /\ IsModelParameter(nscatter_mult)
    /\ parameters[nscatter_mult].value = 2
    /\ lc_unc.values[2] = 2
    /\ obs.sd.kind = "scaled"
    /\ Num(obs.sd.mult, TablePoint) * obs.sd.unc.values[2] = 4

(***************************************************************************)
(* Properties of the kipping2013 law.  An expression is evaluated exactly, *)
(* as a fraction <<numerator, denominator>>, with the variable bound to u1 *)
(* standing for q1 = k^2/16 and the one bound to u2 for q2 = m/4.          *)
(***************************************************************************)
RatEq(a, b) == a[1] * b[2] = b[1] * a[2]
RatRoot(n) == CHOOSE r \in 0..n : r * r = n

RECURSIVE RatEval(_, _, _, _, _)
RatEval(e, b1, b2, k, m) ==
    IF e = b1 THEN <<k * k, 16>>
    ELSE IF e = b2 THEN <<m, 4>>
    ELSE CASE e.kind = "float" -> <<e.value, 1>>
           [] e.kind = "deterministic" -> RatEval(e.expr, b1, b2, k, m)
           [] e.kind = "sqrt" ->
                 <<RatRoot(RatEval(e.x, b1, b2, k, m)[1]), RatRoot(RatEval(e.x, b1, b2, k, m)[2])>>
           [] e.kind = "product" ->
                 <<RatEval(e.x, b1, b2, k, m)[1] * RatEval(e.y, b1, b2, k, m)[1],
                   RatEval(e.x, b1, b2, k, m)[2] * RatEval(e.y, b1, b2, k, m)[2]>>
           [] e.kind = "difference" ->
                 <<RatEval(e.x, b1, b2, k, m)[1] * RatEval(e.y, b1, b2, k, m)[2]
                     - RatEval(e.y, b1, b2, k, m)[1] * RatEval(e.x, b1, b2, k, m)[2],
                   RatEval(e.x, b1, b2, k, m)[2] * RatEval(e.y, b1, b2, k, m)[2]>>

\* The values q1 = k^2/16 and q2 = m/4 in (0, 1)
Quarters == 1..3

\* The coefficients u of a stellar map are 2*sqrt(q1)*q2 and
\* sqrt(q1)*(1 - 2*q2), with q1 and q2 the values of the bindings b1 and b2.
KippingMap(u, b1, b2) ==
    \A k \in Quarters, m \in Quarters :
        /\ RatEq(RatEval(u[1], b1, b2, k, m), <<2 * k * m, 16>>)
        /\ RatEq(RatEval(u[2], b1, b2, k, m), <<k * (4 - 2 * m), 16>>)

FixedNames == {n \in Range(paramtitles) : parameters[n].ptype = "fixed"}

\* The names the kipping2013 transformation adds to the fit object
DerivedNames == IF limb_dark = "kipping2013" THEN {nu1_quadratic, nu2_quadratic} ELSE {}

PolyTrend(v, ts, t) == Polynomial(v, PolyTerms - 1, t - Mean(ts))
RampFromFirst(r, ts, t) == RampTrend(r, t - ts[1])

\* C20: in either path every sample of the systematics flux of channel c at
\* time t is the polynomial of row c of the table in (t - mean(t)), times
\* r0*exp(-r1*(t - t0) + r2) + r3*exp(-r4*(t - t0) + r5) + 1 for row c of the
\* ramp table, with t0 the first sample of the time array.
C20_TrendOffsets ==
    [][ Decoded =>
          \A i \in 1..Len(sysout'.flux) :
              LET c == ChanOf(i, Len(time.values))
                  t == time.values[IndexOf(i, Len(time.values))]
                  v == [d \in 0..(PolyTerms - 1) |-> CellNum(sysout'.poly[c][d])]
                  r == [k \in 0..(RampTerms - 1) |-> CellNum(sysout'.ramp[c][k])]
              IN  SampleValue(sysout', i) =
                      Scale(PolyTrend(v, time.values, t), RampFromFirst(r, time.values, t)) ]_vars

(***************************************************************************)
(* Properties of the required parameters and of the fixed coefficients.    *)
(***************************************************************************)
RequiredNames == {nMs, nMp, nRs}

\* C25: once the required-parameter check has passed and the parameter loop
\* has ended without raising, Ms, Mp and Rs are attributes of the model,
\* whatever their ptype, and the construction of the star and of the planet
\* does not fail to read one of them.
C25_RequiredBound ==
    /\ pc \in {"star", "limb", "planet", "system", "built"} =>
          \A n \in RequiredNames : Has(attrs, n)
    /\ pc = "failed" =>
          ~(err.type = "AttributeError" /\ Range(err.names) \cap RequiredNames # {})

\* The tables the two paths decode on the model as it is
ConcreteTables == DecodeFit(1, EmptyTables(nchan), fit_dict.items, nchan)
LazyTables == DecodeTitles(1, EmptyTables(nchan), paramtitles, attrs, nchan)

\* C24: on a built model with a fit point, when both decodings complete,
\* every cell of the polynomial and of the ramp table of the concrete path
\* holds the value of the same cell of the differentiable path: the fit
\* point's value of a fitted coefficient and the table value of a fixed one.
C24_SameCoefficients ==
    (pc = "built" /\ fit_dict # NoObj /\ fiterr = NoErr) =>
        ((ConcreteTables.err = NoErr /\ LazyTables.err = NoErr) =>
            \A c \in 0..(nchan - 1) :
                /\ \A t \in 0..(PolyTerms - 1) :
                      ConcreteTables.poly[c][t].value
                          = Num(LazyTables.poly[c][t], fit_dict.items)
                /\ \A t \in 0..(RampTerms - 1) :
                      ConcreteTables.ramp[c][t].value
                          = Num(LazyTables.ramp[c][t], fit_dict.items))

(***************************************************************************)
(* Properties of the directories of a MetaClass.                           *)
(***************************************************************************)
\* The components of a raw directory string: the quotation marks are left
\* out and every "/" and every backslash ends a component.
RECURSIVE PathParts(_, _)
PathParts(s, cur) ==
    IF s = <<>> THEN <<cur>>
    ELSE IF Head(s) = Quote THEN PathParts(Tail(s), cur)
    ELSE IF Head(s) \in {Sep, Backslash} THEN <<cur>> \o PathParts(Tail(s), <<>>)
    ELSE PathParts(Tail(s), Append(cur, Head(s)))

\* The absolute path of topdir joined with the components of a raw string,
\* ending with the separator
WithSep(path) == IF path[Len(path)] = Sep THEN path ELSE path \o <<Sep>>
ExpectedDir(topdir, raw) ==
    WithSep(AbsPath(topdir \o <<Sep>> \o JoinWith(<<Sep>>, PathParts(raw, <<>>))))

\* The step is the assignment meta.item = v.
Assigns(item, v) ==
    /\ meta # NoObj
    /\ meta' = MetaObj(SetAttr(meta.d, item, v).d)
    /\ metaerr' = SetAttr(meta.d, item, v).err

TopdirSet == meta # NoObj /\ ntopdir \in DOMAIN meta.d /\ meta.d[ntopdir].kind = "str"

\* The raw property, its private attribute and the directory derived from it
RawProperties ==
    {[raw |-> noutputdir_raw, private |-> n_outputdir_raw, dir |-> noutputdir],
     [raw |-> ninputdir_raw, private |-> n_inputdir_raw, dir |-> ninputdir]}

\* C21: on an object whose topdir is set, an assignment of a string to
\* outputdir_raw (inputdir_raw) does not raise and leaves as outputdir
\* (inputdir) the absolute path of topdir joined with the components of the
\* string, ending with the separator; an assignment of None leaves the raw
\* value and the directory as they were.
C21_DirFollowsRaw ==
    [][ \A p \in RawProperties :
          /\ \A v \in OutRaws \cup InRaws :
                (TopdirSet /\ Assigns(p.raw, v)) =>
                    /\ metaerr' = NoErr
                    /\ meta'.d[p.dir] = Str(ExpectedDir(meta.d[ntopdir].s, v.s))
                    /\ meta'.d[ntopdir] = meta.d[ntopdir]
          /\ (TopdirSet /\ Assigns(p.raw, None)) =>
                /\ metaerr' = NoErr
                /\ meta'.d[p.private] = meta.d[p.private]
                /\ (p.dir \in DOMAIN meta.d =>
                       p.dir \in DOMAIN meta'.d /\ meta'.d[p.dir] = meta.d[p.dir])
                /\ (p.dir \notin DOMAIN meta.d => p.dir \notin DOMAIN meta'.d) ]_vars

\* outputdir_raw was assigned "a b"/c with quotation marks under the topdir
\* /t, and a later None left /t/a b/c/ in place.
C21_Witness ==
    /\ TopdirSet
    /\ meta.d[ntopdir] = Str(<<"/", "t">>)
    /\ noutputdir \in DOMAIN meta.d
    /\ meta.d[noutputdir] = Str(<<"/", "t", "/", "a", " ", "b", "/", "c", "/">>)
    /\ meta.d[n_outputdir_raw] = Str(<<"a", " ", "b", "/", "c">>)
    /\ noutputdir_raw \in DOMAIN meta.d[nparams].map
    /\ meta.d[nparams].map[noutputdir_raw] = None

\* The step is the call MetaClass(c.folder, c.file, **c.kwargs).
Constructs(c) ==
    /\ meta = NoObj
    /\ metaerr' = MetaInit(c.folder, c.file, c.kwargs, disk).err
    /\ meta' = IF metaerr' # NoErr THEN NoObj
               ELSE MetaObj(MetaInit(c.folder, c.file, c.kwargs, disk).d)

KwargNames(kwargs) == {kwargs[i][1] : i \in DOMAIN kwargs}

\* C22: MetaClass(**kwargs) without a file returns an object whose params
\* holds the keyword arguments and nothing else, each of them an attribute
\* that can be read; MetaClass(folder, file) for a file that is not in the
\* folder raises ValueError, returns no object and leaves the disk alone.
C22_KwargsAreParams ==
    [][ \A c \in Calls :
          Constructs(c) =>
            /\ c.file = None =>
                  /\ metaerr' = NoErr
                  /\ meta' # NoObj
                  /\ meta'.d[nparams].kind = "params"
                  /\ DOMAIN meta'.d[nparams].map = KwargNames(c.kwargs)
                  /\ \A i \in DOMAIN c.kwargs :
                        /\ meta'.d[nparams].map[c.kwargs[i][1]] = c.kwargs[i][2]
                        /\ HasAttr(meta'.d, c.kwargs[i][1])
            /\ (c.file # None /\ PathJoin(c.folder.s, <<c.file.s>>) \notin DOMAIN disk) =>
                  /\ metaerr'.type = "ValueError"
                  /\ meta' = NoObj
                  /\ disk' = disk ]_vars

\* The step is MetaClass(folder, file) reading a control file of the folder.
ReadsFile ==
    /\ meta = NoObj
    /\ meta' # NoObj
    /\ nfilename \in DOMAIN meta'.d

\* The raw directory of a control file: the value of the parameter dir on
\* the first line that names it.
RECURSIVE RawInFile(_, _)
RawInFile(lines, dir) ==
    IF lines = <<>> THEN <<>>
    ELSE IF LineName(lines[1]) = dir THEN LineValue(lines[1]).s
    ELSE RawInFile(Tail(lines), dir)

\* C26: after MetaClass(folder, file) has read a control file with topdir,
\* inputdir and outputdir, inputdir_raw and outputdir_raw are strings, the
\* raw directories of the file without quotation marks and with "/" for
\* every separator, and inputdir (outputdir) is the absolute path of topdir
\* joined with it, ending with the separator.
C26_RawAfterRead ==
    [][ ReadsFile =>
          \A p \in RawProperties :
             /\ GetAttr(meta'.d, p.raw).kind = "str"
             /\ GetAttr(meta'.d, p.raw).s =
                   JoinWith(<<Sep>>, PathParts(
                       RawInFile(CleanLines(meta'.d[nlines].lines), p.dir), <<>>))
             /\ meta'.d[p.dir] =
                   Str(ExpectedDir(meta'.d[ntopdir].s, GetAttr(meta'.d, p.raw).s)) ]_vars

\* The names that __setattr__ keeps out of params
Underscored(d) == {n \in DOMAIN d : n[1] = "_"}

\* C27: every name in params is an attribute of the object whose value is
\* the value params holds for it, and params holds no state attribute and
\* no name that starts with an underscore.
C27_ParamsMirrorAttributes ==
    (meta # NoObj /\ meta.d[nparams].kind = "params") =>
        /\ \A n \in DOMAIN meta.d[nparams].map :
              /\ HasAttr(meta.d, n)
              /\ GetAttr(meta.d, n) = meta.d[nparams].map[n]
        /\ DOMAIN meta.d[nparams].map \cap StateAttributes = {}
        /\ Underscored(meta.d[nparams].map) = {}

\* The step is copy_ecf() on an object that was read from a control file.
CopiesEcf ==
    /\ FromFile
    /\ meta' = meta
    /\ disk' # disk

\* The lines read, the lines written and the tokens of a line
LinesRead == meta.d[nlines].lines
Written == disk'[PathJoin(meta.d[noutputdir].s, <<meta.d[nfilename].s>>)].lines
IsInputdirLine(line) ==
    /\ Len(Strip(line)) > 0
    /\ Strip(line)[1] # "#"
    /\ SplitWords(Strip(line))[1] = ninputdir

\* The tokens after the value on a parameter line, a quoted value being one
\* token
Following(line) == Tail(Tail(ShlexSplit(Strip(line))))

\* C23: copy_ecf does not raise, leaves the files of the disk as they were
\* and writes outputdir/filename with one line per line read: a line other
\* than the inputdir line as it was read, and the inputdir line as the name
\* inputdir, the raw input directory of the object and the tokens that
\* followed the value on the line read.
C23_CopyKeepsLines ==
    [][ CopiesEcf =>
          /\ metaerr' = NoErr
          /\ \A f \in DOMAIN disk : disk'[f] = disk[f]
          /\ DOMAIN disk' = DOMAIN disk
                \cup {PathJoin(meta.d[noutputdir].s, <<meta.d[nfilename].s>>)}
          /\ Len(Written) = Len(LinesRead)
          /\ \A i \in 1..Len(LinesRead) :
                IF IsInputdirLine(LinesRead[i])
                THEN /\ GetAttr(meta.d, ninputdir_raw).kind = "str"
                     /\ i \in DOMAIN Written
                     /\ SplitWords(Strip(Written[i])) =
                           <<ninputdir>> \o SplitWords(GetAttr(meta.d, ninputdir_raw).s)
                              \o Following(LinesRead[i])
                     /\ Written[i][Len(Written[i])] = "\n"
                ELSE i \in DOMAIN Written /\ Written[i] = LinesRead[i] ]_vars

====
